---------------------------- MODULE Spec2Model ----------------------------
(***************************************************************************)
(* A model of parseCamt053 (src/src/parser.ts): the precondition checks,   *)
(* the location of the statements and the mapping of every statement and   *)
(* every entry / transaction-detail block to a normalized record.          *)
(*                                                                         *)
(* JavaScript values are tagged records:                                   *)
(*   Null        null and undefined (get() turns undefined into null and   *)
(*               every test of the code treats the two alike)              *)
(*   Str(s)      a string; s is a TLA+ string, read character by character *)
(*   Obj(f)      an object; f maps its own keys to values.  xml2js >= 0.5  *)
(*               (package.json asks for ^0.6.2) builds every object with   *)
(*               Object.create(null): it has no toString                   *)
(*   Arr(a)      an array; a is a sequence of values                       *)
(*   Num(n)      a number, held in hundredths (n = 4000 is 40.00)          *)
(*   NaN         the number NaN                                            *)
(***************************************************************************)
EXTENDS Integers, Sequences, FiniteSets, TLC

VARIABLES
    xml,        \* the input of parseCamt053: declared namespace, validator verdict, tree
    pc,         \* the position of parseCamt053
    xmlObj,     \* the tree parseStringPromise returned (Null before step 3)
    stmts,      \* the statement subtrees found by step 4
    result,     \* the statements mapped so far by step 5
    err,        \* the message of the error thrown ("" while none)
    returned,   \* what the caller received: "pending", "rejected" or "resolved"
    earlier     \* what the call before this one left (the loop of parse-samples.ts)

vars == <<xml, pc, xmlObj, stmts, result, err, returned, earlier>>

----------------------------------------------------------------------------
(* JavaScript values *)

Null == [k |-> "null"]
Str(s) == [k |-> "str", s |-> s]
Obj(f) == [k |-> "obj", f |-> f]
Arr(a) == [k |-> "arr", a |-> a]
Num(n) == [k |-> "num", n |-> n]
NaN == [k |-> "nan"]

\* ToBoolean: null, undefined, "", 0 and NaN are falsy; objects and arrays are truthy.
Truthy(v) ==
    CASE v.k = "null" -> FALSE
      [] v.k = "str" -> v.s # ""
      [] v.k = "num" -> v.n # 0
      [] v.k = "nan" -> FALSE
      [] OTHER -> TRUE

\* v[key] for a non-null v and an element name: only an object has such a key
\* (a string or an array has none of the element names; undefined is Null here).
Prop(v, key) ==
    IF v.k = "obj" /\ key \in DOMAIN v.f THEN v.f[key] ELSE Null

\* a ?? b
Coalesce(a, b) == IF a # Null THEN a ELSE b

\* a || b
OrElse(a, b) == IF Truthy(a) THEN a ELSE b

\* Array.isArray(v) ? v : [v]
AsArray(v) == IF v.k = "arr" THEN v.a ELSE <<v>>

RECURSIVE get(_, _)
\* path.reduce((acc, key) => (acc && acc[key] !== undefined ? acc[key] : null), obj) ?? null
get(obj, path) ==
    IF path = <<>> THEN obj
    ELSE get(IF Truthy(obj) THEN Prop(obj, Head(path)) ELSE Null, Tail(path))

----------------------------------------------------------------------------
(* Text: the regular expression of extractDate, parseFloat, parseInt, join *)

Digits == {"0", "1", "2", "3", "4", "5", "6", "7", "8", "9"}

CharAt(s, i) == SubSeq(s, i, i)

IsDigitAt(s, i) == i >= 1 /\ i <= Len(s) /\ CharAt(s, i) \in Digits

DigitVal(c) ==
    CASE c = "0" -> 0 [] c = "1" -> 1 [] c = "2" -> 2 [] c = "3" -> 3 [] c = "4" -> 4
      [] c = "5" -> 5 [] c = "6" -> 6 [] c = "7" -> 7 [] c = "8" -> 8 [] c = "9" -> 9

\* /\d{4}-\d{2}-\d{2}/ matches at position i
DateAt(s, i) ==
    /\ i + 9 <= Len(s)
    /\ \A j \in 0..9 :
          IF j \in {4, 7} THEN CharAt(s, i + j) = "-" ELSE CharAt(s, i + j) \in Digits

\* obj.match(/\d{4}-\d{2}-\d{2}/): m ? m[0] : null, the leftmost match
MatchDate(s) ==
    LET hits == {i \in 1..Len(s) : DateAt(s, i)}
    IN IF hits = {} THEN Null
       ELSE LET m == CHOOSE i \in hits : \A j \in hits : i <= j
            IN Str(SubSeq(s, m, m + 9))

RECURSIVE SkipSpace(_, _)
\* the first position at or after i that holds no white space
SkipSpace(s, i) ==
    IF i <= Len(s) /\ CharAt(s, i) \in {" ", "\t", "\n"} THEN SkipSpace(s, i + 1) ELSE i

RECURSIVE DigitsEnd(_, _)
\* the first position at or after i that holds no digit
DigitsEnd(s, i) == IF IsDigitAt(s, i) THEN DigitsEnd(s, i + 1) ELSE i

RECURSIVE NatOf(_, _, _)
\* the value of the digits s[i..j-1]
NatOf(s, i, j) ==
    IF j <= i THEN 0 ELSE NatOf(s, i, j - 1) * 10 + DigitVal(CharAt(s, j - 1))

\* parseFloat(s): white space, a sign, digits, a fraction; NaN without any digit.
\* The value is kept in hundredths: the texts of the model carry at most two
\* fraction digits and no exponent.
ParseFloatText(s) ==
    LET a == SkipSpace(s, 1)
        neg == a <= Len(s) /\ CharAt(s, a) = "-"
        b == IF a <= Len(s) /\ CharAt(s, a) \in {"-", "+"} THEN a + 1 ELSE a
        c == DigitsEnd(s, b)
        dot == c <= Len(s) /\ CharAt(s, c) = "."
        d == IF dot THEN DigitsEnd(s, c + 1) ELSE c
        nfrac == IF dot THEN d - (c + 1) ELSE 0
        ip == NatOf(s, b, c)
        fp == IF nfrac = 0 THEN 0
              ELSE IF nfrac = 1 THEN 10 * NatOf(s, c + 1, c + 2)
              ELSE NatOf(s, c + 1, c + 3)
        mag == ip * 100 + fp
    IN IF c = b /\ nfrac = 0 THEN NaN
       ELSE Num(IF neg THEN 0 - mag ELSE mag)

\* parseInt(s, 10): white space, a sign, digits; NaN without any digit.
ParseIntText(s) ==
    LET a == SkipSpace(s, 1)
        neg == a <= Len(s) /\ CharAt(s, a) = "-"
        b == IF a <= Len(s) /\ CharAt(s, a) \in {"-", "+"} THEN a + 1 ELSE a
        c == DigitsEnd(s, b)
        mag == NatOf(s, b, c) * 100
    IN IF c = b THEN NaN ELSE Num(IF neg THEN 0 - mag ELSE mag)

RECURSIVE HasToString(_)
\* ToString(v) completes: a string is itself, an array joins its elements, and an
\* object of xml2js, which has no prototype, raises a TypeError.
HasToString(v) ==
    CASE v.k = "obj" -> FALSE
      [] v.k = "arr" -> \A i \in 1..Len(v.a) : HasToString(v.a[i])
      [] OTHER -> TRUE

RECURSIVE JoinText(_, _)
RECURSIVE ToText(_)
\* parts.join(sep) of values that have a ToString
JoinText(parts, sep) ==
    IF parts = <<>> THEN ""
    ELSE IF Len(parts) = 1 THEN ToText(parts[1])
    ELSE ToText(parts[1]) \o sep \o JoinText(Tail(parts), sep)

\* ToString(v) of a value that has one
ToText(v) ==
    CASE v.k = "str" -> v.s
      [] v.k = "arr" -> JoinText(v.a, ",")
      [] OTHER -> ""

----------------------------------------------------------------------------
(* Scalar extractors *)

RECURSIVE extractDateTimeFirst(_)
\* extractDate with the DtTm child tried before the Dt child
extractDateTimeFirst(obj) ==
    IF ~Truthy(obj) THEN Null
    ELSE IF obj.k = "str" THEN MatchDate(obj.s)
    ELSE IF Truthy(Prop(obj, "DtTm")) THEN extractDateTimeFirst(Prop(obj, "DtTm"))
    ELSE IF Truthy(Prop(obj, "Dt")) THEN extractDateTimeFirst(Prop(obj, "Dt"))
    ELSE Null

RECURSIVE extractDate(_)
extractDate(obj) ==
    IF ~Truthy(obj) THEN Null
    ELSE IF obj.k = "str" THEN MatchDate(obj.s)
    ELSE IF Truthy(Prop(obj, "Dt")) THEN extractDate(Prop(obj, "Dt"))
    ELSE IF Truthy(Prop(obj, "DtTm")) THEN extractDate(Prop(obj, "DtTm"))
    ELSE Null

\* parseFloat(v) of the text of an element (xml2js keeps it as a string)
parseFloat(v) == IF v.k = "str" THEN ParseFloatText(v.s) ELSE NaN

extractAmount(obj) ==
    IF ~Truthy(obj) THEN Null
    ELSE IF obj.k = "str" THEN parseFloat(obj)
    ELSE IF Truthy(Prop(obj, "_")) THEN parseFloat(Prop(obj, "_"))
    ELSE Null

\* parseInt(v, 10) of a value that has a ToString
parseInt(v) == ParseIntText(ToText(v))

----------------------------------------------------------------------------
(* Step 5, statement level (parser.ts 122-209) *)

\* txDtls ? get(txDtls, path) : null
getTx(txDtls, path) == IF Truthy(txDtls) THEN get(txDtls, path) ELSE Null

accountHolderOf(stmt) ==
    Coalesce(get(stmt, <<"Acct", "Ownr", "Nm">>),
             get(stmt, <<"Acct", "Ownr", "Id", "OrgId", "Othr", "Id">>))

accountIBANOf(stmt) ==
    Coalesce(get(stmt, <<"Acct", "Id", "IBAN">>),
             get(stmt, <<"Acct", "Id", "Othr", "Id">>))

\* the statement currency without the value-holder case
currencyOfStringOnly(stmt) ==
    LET currencyVal == get(stmt, <<"Acct", "Ccy">>)
    IN IF currencyVal.k = "str" THEN currencyVal ELSE Str("")

\* the statement currency, always a string
currencyOf(stmt) ==
    LET currencyVal == get(stmt, <<"Acct", "Ccy">>)
    IN IF currencyVal.k = "str" THEN currencyVal
       ELSE IF Truthy(currencyVal) /\ Prop(currencyVal, "_").k = "str"
            THEN Prop(currencyVal, "_")
       ELSE Str("")

sequenceNumberRawOf(stmt) ==
    Coalesce(get(stmt, <<"LglSeqNb">>), get(stmt, <<"ElctrncSeqNb">>))

sequenceNumberOf(stmt) ==
    LET sequenceNumberRaw == sequenceNumberRawOf(stmt)
    IN IF Truthy(sequenceNumberRaw) THEN parseInt(sequenceNumberRaw) ELSE Null

\* dates.filter(Boolean)
RECURSIVE FilterTruthy(_)
FilterTruthy(seq) ==
    IF seq = <<>> THEN <<>>
    ELSE (IF Truthy(Head(seq)) THEN <<Head(seq)>> ELSE <<>>) \o FilterTruthy(Tail(seq))

\* tier (d): the date of the last balance block that carries one
balanceDateOf(stmt) ==
    IF Truthy(Prop(stmt, "Bal"))
    THEN LET bals == AsArray(Prop(stmt, "Bal"))
             dates == FilterTruthy([i \in 1..Len(bals) |->
                                       extractDate(get(bals[i], <<"Dt", "Dt">>))])
         IN IF Len(dates) > 0 THEN dates[Len(dates)] ELSE Null
    ELSE Null

\* NtryDtls/TxDtls of one entry as a sequence; empty when there is none
detailBlocksOf(ntry) ==
    LET ntryDtls == get(ntry, <<"NtryDtls">>)
    IN IF Truthy(ntryDtls) /\ Truthy(Prop(ntryDtls, "TxDtls"))
       THEN AsArray(Prop(ntryDtls, "TxDtls"))
       ELSE <<>>

RECURSIVE firstDetailDate(_, _)
\* the inner loop of tier (e): the first detail that yields a date
firstDetailDate(ntry, txDtlsArr) ==
    IF txDtlsArr = <<>> THEN Null
    ELSE LET txDate == Coalesce(extractDate(get(Head(txDtlsArr), <<"BookgDt">>)),
                                extractDate(get(ntry, <<"BookgDt">>)))
         IN IF Truthy(txDate) THEN txDate ELSE firstDetailDate(ntry, Tail(txDtlsArr))

RECURSIVE firstEntryDateEntryLevel(_)
\* the outer loop of tier (e) without the loop over the details
firstEntryDateEntryLevel(ntries) ==
    IF ntries = <<>> THEN Null
    ELSE LET ntryDate == extractDate(get(Head(ntries), <<"BookgDt">>))
         IN IF Truthy(ntryDate) THEN ntryDate
            ELSE firstEntryDateEntryLevel(Tail(ntries))

RECURSIVE firstEntryDate(_)
\* the outer loop of tier (e): the first entry that yields a date
firstEntryDate(ntries) ==
    IF ntries = <<>> THEN Null
    ELSE LET ntry == Head(ntries)
             txDate == firstDetailDate(ntry, detailBlocksOf(ntry))
             ntryDate == extractDate(get(ntry, <<"BookgDt">>))
         IN IF Truthy(txDate) THEN txDate
            ELSE IF Truthy(ntryDate) THEN ntryDate
            ELSE firstEntryDate(Tail(ntries))

transactionDateOf(stmt) ==
    IF Truthy(Prop(stmt, "Ntry")) THEN firstEntryDate(AsArray(Prop(stmt, "Ntry"))) ELSE Null

\* the statement date with the period end date read before the date-time
statementDateOfDateFirst(stmt) ==
    Coalesce(extractDate(get(stmt, <<"FrToDt", "ToDt">>)),
    Coalesce(extractDate(get(stmt, <<"FrToDt", "ToDtTm">>)),
    Coalesce(extractDate(get(stmt, <<"CreDtTm">>)),
    Coalesce(balanceDateOf(stmt),
    Coalesce(transactionDateOf(stmt), Str(""))))))

statementDateOf(stmt) ==
    Coalesce(extractDate(get(stmt, <<"FrToDt", "ToDtTm">>)),
    Coalesce(extractDate(get(stmt, <<"FrToDt", "ToDt">>)),
    Coalesce(extractDate(get(stmt, <<"CreDtTm">>)),
    Coalesce(balanceDateOf(stmt),
    Coalesce(transactionDateOf(stmt), Str(""))))))

RECURSIVE lastBalanceFirstWins(_, _, _)
\* the loop over the balance blocks stopping at the first block with the code
lastBalanceFirstWins(bals, code, acc) ==
    IF bals = <<>> THEN acc
    ELSE IF get(Head(bals), <<"Tp", "CdOrPrtry", "Cd">>) = Str(code)
         THEN extractAmount(Prop(Head(bals), "Amt"))
         ELSE lastBalanceFirstWins(Tail(bals), code, acc)

RECURSIVE lastBalance(_, _, _)
\* the loop over the balance blocks: the amount of the last block with the code
lastBalance(bals, code, acc) ==
    IF bals = <<>> THEN acc
    ELSE lastBalance(Tail(bals), code,
                     IF get(Head(bals), <<"Tp", "CdOrPrtry", "Cd">>) = Str(code)
                     THEN extractAmount(Prop(Head(bals), "Amt")) ELSE acc)

balanceOf(stmt, code) ==
    IF Truthy(Prop(stmt, "Bal"))
    THEN lastBalance(AsArray(Prop(stmt, "Bal")), code, Null)
    ELSE Null

\* the summary block tag ("TtlCdtNtries" or "TtlDbtNtries") is read
hasSummary(stmt, tag) ==
    Truthy(Prop(stmt, "TxsSummry")) /\ Truthy(Prop(Prop(stmt, "TxsSummry"), tag))

numberOfEntriesRaw(stmt, tag) ==
    Coalesce(get(stmt, <<"TxsSummry", tag, "NbOfNtries">>), Str("0"))

numberOfEntries(stmt, tag) ==
    IF hasSummary(stmt, tag) THEN parseInt(numberOfEntriesRaw(stmt, tag)) ELSE Null

totalOfEntries(stmt, tag) ==
    IF hasSummary(stmt, tag) THEN extractAmount(get(stmt, <<"TxsSummry", tag, "Sum">>))
    ELSE Null

\* the entries of a statement, wrapped without the test for a missing Ntry
ntriesOfUnguarded(stmt) == AsArray(Prop(stmt, "Ntry"))

\* the entries of a statement as a sequence
ntriesOf(stmt) ==
    IF Truthy(Prop(stmt, "Ntry")) THEN AsArray(Prop(stmt, "Ntry")) ELSE <<>>

----------------------------------------------------------------------------
(* Step 5, entry and transaction level (parser.ts 211-342) *)

ntryDateOf(ntry) == extractDate(get(ntry, <<"BookgDt">>))

ntryAmountOf(ntry) == extractAmount(get(ntry, <<"Amt">>))

ntryTypeOf(ntry) ==
    LET ntryTypeRaw == get(ntry, <<"CdtDbtInd">>)
    IN IF ntryTypeRaw = Str("CRDT") THEN Str("credit")
       ELSE IF ntryTypeRaw = Str("DBIT") THEN Str("debit")
       ELSE Null

\* Amt/@Ccy of the entry whenever it is there, the statement currency otherwise
ntryCurrencyOfEntryFirst(currency, ntry) ==
    LET amtObj == get(ntry, <<"Amt">>)
    IN IF Truthy(amtObj) /\ amtObj.k \in {"obj", "arr"} /\ Truthy(Prop(amtObj, "Ccy"))
       THEN Prop(amtObj, "Ccy")
       ELSE currency

\* the statement currency, or Amt/@Ccy of the entry when the statement has none
ntryCurrencyOf(currency, ntry) ==
    LET amtObj == get(ntry, <<"Amt">>)
    IN IF ~Truthy(currency) /\ Truthy(amtObj) /\ amtObj.k \in {"obj", "arr"}
          /\ Truthy(Prop(amtObj, "Ccy"))
       THEN Prop(amtObj, "Ccy")
       ELSE currency

\* the details one entry is mapped over: its TxDtls, or one null detail
txDtlsArrOf(ntry) ==
    IF Len(detailBlocksOf(ntry)) = 0 THEN <<Null>> ELSE detailBlocksOf(ntry)

\* the direction-dependent counterparty field; who is "Dbtr" or "Cdtr"
partyName(txDtls, who) ==
    Coalesce(get(txDtls, <<"RltdPties", who, "Nm">>),
             get(txDtls, <<"RltdPties", who, "Pty", "Nm">>))

partyAccount(txDtls, who) ==
    Coalesce(get(txDtls, <<"RltdPties", who \o "Acct", "Id", "IBAN">>),
             get(txDtls, <<"RltdPties", who \o "Acct", "Id", "Othr", "Id">>))

hasParties(txDtls) == Truthy(txDtls) /\ Truthy(Prop(txDtls, "RltdPties"))

\* the counterparty name without the fallback to the references
counterpartyNameOfNoFallback(ntry, txDtls) ==
    LET ntryType == ntryTypeOf(ntry)
    IN IF hasParties(txDtls) /\ ntryType = Str("credit") THEN partyName(txDtls, "Dbtr")
       ELSE IF hasParties(txDtls) /\ ntryType = Str("debit") THEN partyName(txDtls, "Cdtr")
       ELSE Null

counterpartyNameOf(ntry, txDtls) ==
    LET ntryType == ntryTypeOf(ntry)
        found == IF hasParties(txDtls) /\ ntryType = Str("credit")
                    THEN partyName(txDtls, "Dbtr")
                 ELSE IF hasParties(txDtls) /\ ntryType = Str("debit")
                    THEN partyName(txDtls, "Cdtr")
                 ELSE Null
    IN IF ~Truthy(found)
       THEN Coalesce(get(ntry, <<"AcctSvcrRef">>),
            Coalesce(get(ntry, <<"NtryRef">>),
                     getTx(txDtls, <<"Refs", "Prtry", "Ref">>)))
       ELSE found

\* the counterparty account read from the debtor whatever the direction
counterpartyAccountIBANOfDebtorOnly(ntry, txDtls) ==
    LET ntryType == ntryTypeOf(ntry)
        found == IF hasParties(txDtls) /\ ntryType \in {Str("credit"), Str("debit")}
                    THEN partyAccount(txDtls, "Dbtr")
                 ELSE Null
    IN IF ~Truthy(found)
       THEN Coalesce(getTx(txDtls, <<"Refs", "Prtry", "Ref">>),
                     get(ntry, <<"NtryRef">>))
       ELSE found

counterpartyAccountIBANOf(ntry, txDtls) ==
    LET ntryType == ntryTypeOf(ntry)
        found == IF hasParties(txDtls) /\ ntryType = Str("credit")
                    THEN partyAccount(txDtls, "Dbtr")
                 ELSE IF hasParties(txDtls) /\ ntryType = Str("debit")
                    THEN partyAccount(txDtls, "Cdtr")
                 ELSE Null
    IN IF ~Truthy(found)
       THEN Coalesce(getTx(txDtls, <<"Refs", "Prtry", "Ref">>),
                     get(ntry, <<"NtryRef">>))
       ELSE found

\* the end-to-end reference without the fallback to NtryRef
endToEndReferenceOfNoEntryRef(ntry, txDtls) ==
    LET found == getTx(txDtls, <<"Refs", "EndToEndId">>)
    IN IF ~Truthy(found)
       THEN Coalesce(getTx(txDtls, <<"Refs", "ClrSysRef">>),
                     getTx(txDtls, <<"Refs", "Prtry", "Ref">>))
       ELSE found

endToEndReferenceOf(ntry, txDtls) ==
    LET found == getTx(txDtls, <<"Refs", "EndToEndId">>)
    IN IF ~Truthy(found)
       THEN Coalesce(getTx(txDtls, <<"Refs", "ClrSysRef">>),
            Coalesce(getTx(txDtls, <<"Refs", "Prtry", "Ref">>),
                     get(ntry, <<"NtryRef">>)))
       ELSE found

strdOf(txDtls) == getTx(txDtls, <<"RmtInf", "Strd">>)

remittanceReferenceOf(txDtls) ==
    LET strd == strdOf(txDtls)
        found == IF Truthy(strd) /\ Truthy(Prop(strd, "CdtrRefInf"))
                    /\ Truthy(Prop(Prop(strd, "CdtrRefInf"), "Ref"))
                 THEN Prop(Prop(strd, "CdtrRefInf"), "Ref")
                 ELSE Null
    IN IF ~Truthy(found) /\ Truthy(strd)
       THEN Coalesce(get(strd, <<"RfrdDocInf", "Nb">>),
                     get(strd, <<"RfrdDocInf", "Tp", "CdOrPrtry", "Cd">>))
       ELSE found

purposeOf(txDtls) == getTx(txDtls, <<"Purp", "Cd">>)

\* if (v) descriptionParts.push(v)
pushIf(v) == IF Truthy(v) THEN <<v>> ELSE <<>>

\* the fallback of the description: the first reference that is not null
fallbackDescOf(stmt, ntry, txDtls) ==
    Coalesce(get(ntry, <<"AcctSvcrRef">>),
    Coalesce(getTx(txDtls, <<"Refs", "InstrId">>),
             get(stmt, <<"Id">>)))

\* descriptionParts.filter(Boolean) with a fallback that pushes every reference
filteredPartsOfAllReferences(stmt, ntry, txDtls) ==
    LET strd == strdOf(txDtls)
        descriptionParts ==
            pushIf(getTx(txDtls, <<"RmtInf", "Ustrd">>))
            \o (IF Truthy(strd) THEN pushIf(Prop(strd, "AddtlRmtInf")) ELSE <<>>)
            \o pushIf(get(ntry, <<"AddtlNtryInf">>))
            \o pushIf(getTx(txDtls, <<"AddtlTxInf">>))
    IN FilterTruthy(IF Len(descriptionParts) = 0
                    THEN pushIf(get(ntry, <<"AcctSvcrRef">>))
                         \o pushIf(getTx(txDtls, <<"Refs", "InstrId">>))
                         \o pushIf(get(stmt, <<"Id">>))
                    ELSE descriptionParts)

\* descriptionParts.filter(Boolean) once the fallback was applied
filteredPartsOf(stmt, ntry, txDtls) ==
    LET strd == strdOf(txDtls)
        descriptionParts ==
            pushIf(getTx(txDtls, <<"RmtInf", "Ustrd">>))
            \o (IF Truthy(strd) THEN pushIf(Prop(strd, "AddtlRmtInf")) ELSE <<>>)
            \o pushIf(get(ntry, <<"AddtlNtryInf">>))
            \o pushIf(getTx(txDtls, <<"AddtlTxInf">>))
    IN FilterTruthy(IF Len(descriptionParts) = 0
                    THEN pushIf(fallbackDescOf(stmt, ntry, txDtls))
                    ELSE descriptionParts)

descriptionOf(stmt, ntry, txDtls) ==
    LET filteredParts == filteredPartsOf(stmt, ntry, txDtls)
    IN IF Len(filteredParts) > 0 THEN filteredParts[1] ELSE Null

\* the overflow text with the first part left in (slice(1) forgotten)
descriptionAdditionalOfAllParts(stmt, ntry, txDtls) ==
    LET filteredParts == filteredPartsOf(stmt, ntry, txDtls)
    IN IF Len(filteredParts) > 1 THEN Str(JoinText(filteredParts, " | ")) ELSE Null

descriptionAdditionalOf(stmt, ntry, txDtls) ==
    LET filteredParts == filteredPartsOf(stmt, ntry, txDtls)
    IN IF Len(filteredParts) > 1 THEN Str(JoinText(Tail(filteredParts), " | ")) ELSE Null

dateOf(ntry, txDtls) ==
    IF Truthy(txDtls)
    THEN Coalesce(extractDate(get(txDtls, <<"BookgDt">>)), ntryDateOf(ntry))
    ELSE ntryDateOf(ntry)

\* the amount with || in the place of ??: a detail amount of zero counts as none
amountOfFalsyFallback(ntry, txDtls) ==
    IF Truthy(txDtls)
    THEN OrElse(extractAmount(get(txDtls, <<"Amt">>)), ntryAmountOf(ntry))
    ELSE ntryAmountOf(ntry)

amountOf(ntry, txDtls) ==
    IF Truthy(txDtls)
    THEN Coalesce(extractAmount(get(txDtls, <<"Amt">>)), ntryAmountOf(ntry))
    ELSE ntryAmountOf(ntry)

txCurrencyOf(currency, ntry, txDtls) ==
    OrElse(getTx(txDtls, <<"Amt", "Ccy">>), ntryCurrencyOf(currency, ntry))

\* the record the inner map returns for one detail of one entry
mapTransaction(stmt, ntry, txDtls) ==
    [date |-> dateOf(ntry, txDtls),
     amount |-> amountOf(ntry, txDtls),
     currency |-> txCurrencyOf(currencyOf(stmt), ntry, txDtls),
     type |-> ntryTypeOf(ntry),
     counterpartyName |-> counterpartyNameOf(ntry, txDtls),
     counterpartyAccountIBAN |-> counterpartyAccountIBANOf(ntry, txDtls),
     description |-> descriptionOf(stmt, ntry, txDtls),
     descriptionAdditional |-> descriptionAdditionalOf(stmt, ntry, txDtls),
     endToEndReference |-> endToEndReferenceOf(ntry, txDtls),
     remittanceReference |-> remittanceReferenceOf(txDtls),
     purpose |-> purposeOf(txDtls)]

\* join(' | ') meets a part that has no ToString: a TypeError
transactionThrows(stmt, ntry, txDtls) ==
    LET filteredParts == filteredPartsOf(stmt, ntry, txDtls)
    IN \E i \in 2..Len(filteredParts) : ~HasToString(filteredParts[i])

\* txDtlsArr.map(...) of one entry with the details taken from the last to the first
mapEntryReversed(stmt, ntry) ==
    LET txDtlsArr == txDtlsArrOf(ntry)
    IN [i \in 1..Len(txDtlsArr) |->
            mapTransaction(stmt, ntry, txDtlsArr[Len(txDtlsArr) + 1 - i])]

\* txDtlsArr.map(...) of one entry
mapEntry(stmt, ntry) ==
    LET txDtlsArr == txDtlsArrOf(ntry)
    IN [i \in 1..Len(txDtlsArr) |-> mapTransaction(stmt, ntry, txDtlsArr[i])]

RECURSIVE flatMapEntries(_, _)
\* ntries.flatMap(...)
flatMapEntries(stmt, ntries) ==
    IF ntries = <<>> THEN <<>>
    ELSE mapEntry(stmt, Head(ntries)) \o flatMapEntries(stmt, Tail(ntries))

transactionsOf(stmt) == flatMapEntries(stmt, ntriesOf(stmt))

\* the record the outer map returns for the statement at index idx (from 0)
mapStatement(stmt, idx) ==
    [statementTitle |->
         Str("Statement " \o ToString(idx + 1) \o ": " \o currencyOf(stmt).s \o " Account"),
     accountHolder |-> accountHolderOf(stmt),
     accountIBAN |-> accountIBANOf(stmt),
     currency |-> currencyOf(stmt),
     statementDate |-> statementDateOf(stmt),
     sequenceNumber |-> sequenceNumberOf(stmt),
     openingBalance |-> balanceOf(stmt, "OPBD"),
     closingBalance |-> balanceOf(stmt, "CLBD"),
     numberOfCredits |-> numberOfEntries(stmt, "TtlCdtNtries"),
     totalCredits |-> totalOfEntries(stmt, "TtlCdtNtries"),
     numberOfDebits |-> numberOfEntries(stmt, "TtlDbtNtries"),
     totalDebits |-> totalOfEntries(stmt, "TtlDbtNtries"),
     transactions |-> transactionsOf(stmt)]

\* mapping the statement raises a TypeError: parseInt or join meets an object
statementThrows(stmt) ==
    \/ Truthy(sequenceNumberRawOf(stmt)) /\ ~HasToString(sequenceNumberRawOf(stmt))
    \/ \E tag \in {"TtlCdtNtries", "TtlDbtNtries"} :
          hasSummary(stmt, tag) /\ ~HasToString(numberOfEntriesRaw(stmt, tag))
    \/ \E i \in 1..Len(ntriesOf(stmt)) :
          LET ntry == ntriesOf(stmt)[i]
          IN \E j \in 1..Len(txDtlsArrOf(ntry)) :
                transactionThrows(stmt, ntry, txDtlsArrOf(ntry)[j])

----------------------------------------------------------------------------
(* Steps 1 to 4: the preconditions (parser.ts 10-53, 90-119) *)

NAMESPACE_TO_XSD ==
    [n \in {"urn:iso:std:iso:20022:tech:xsd:camt.053.001.02",
            "urn:iso:std:iso:20022:tech:xsd:camt.053.001.08",
            "urn:iso:std:iso:20022:tech:xsd:camt.053.001.13"} |->
        SubSeq(n, 32, 46) \o ".xsd"]

\* the text s holds the literal lit at position i
LitAt(s, i, lit) == i + Len(lit) - 1 <= Len(s) /\ SubSeq(s, i, i + Len(lit) - 1) = lit

\* no character c in s[i..j]
NoneIn(s, i, j, c) == \A m \in i..j : CharAt(s, m) # c

\* xml.match(/<Document[^>]+xmlns="([^"]+)"/): the leftmost start, the greedy
\* [^>]+ and the greedy capture; match ? match[1] : null
detectNamespace(text) ==
    LET n == Len(text)
        \* q is where xmlns=" starts, for a match that starts at p
        Fits(p, q) == /\ q >= p + 10
                      /\ LitAt(text, q, "xmlns=\"")
                      /\ LitAt(text, p, "<Document")
                      /\ NoneIn(text, p + 9, q - 1, ">")
                      /\ q + 7 <= n /\ CharAt(text, q + 7) # "\""
                      /\ \E r \in (q + 8)..n : CharAt(text, r) = "\""
        starts == {p \in 1..n : LitAt(text, p, "<Document") /\ \E q \in 1..n : Fits(p, q)}
    IN IF starts = {} THEN Null
       ELSE LET p == CHOOSE a \in starts : \A b \in starts : a <= b
                qs == {q \in 1..n : Fits(p, q)}
                q == CHOOSE a \in qs : \A b \in qs : b <= a
                r == CHOOSE a \in (q + 8)..n :
                        /\ CharAt(text, a) = "\""
                        /\ NoneIn(text, q + 8, a - 1, "\"")
            IN Str(SubSeq(text, q + 7, r - 1))

NoError == [name |-> "", message |-> ""]

\* throw new Camt053ParserError(message)
Camt053ParserError(message) == [name |-> "Camt053ParserError", message |-> message]

\* the TypeError the runtime raises inside the statement map
TypeError == [name |-> "TypeError", message |-> "Cannot convert object to primitive value"]

\* an async function that throws: the promise rejects and the caller gets no value
Reject(e) ==
    /\ pc' = "failed"
    /\ err' = e
    /\ returned' = "rejected"

\* step 1 (parser.ts 92-95)
DetectNamespace ==
    /\ pc = "start"
    /\ LET namespace == detectNamespace(xml.text)
       IN IF ~Truthy(namespace) \/ namespace.s \notin DOMAIN NAMESPACE_TO_XSD
          THEN Reject(Camt053ParserError("Unsupported or missing CAMT.053 namespace"))
          ELSE pc' = "validate" /\ UNCHANGED <<err, returned>>
    /\ UNCHANGED <<earlier, xml, xmlObj, stmts, result>>

\* step 2 with the verdict of the validation dropped
ValidateXmlIgnoringVerdict ==
    /\ pc = "validate"
    /\ pc' = "parse"
    /\ UNCHANGED <<earlier, xml, xmlObj, stmts, result, err, returned>>

\* step 2 (parser.ts 98-100, 35-53): the verdict of libxmljs on the text
ValidateXml ==
    /\ pc = "validate"
    /\ IF xml.verdict = "malformed"
       THEN Reject(Camt053ParserError("Invalid XML: "))
       ELSE IF xml.verdict = "invalid"
       THEN Reject(Camt053ParserError("XSD validation failed: "))
       ELSE pc' = "parse" /\ UNCHANGED <<err, returned>>
    /\ UNCHANGED <<earlier, xml, xmlObj, stmts, result>>

\* step 3 (parser.ts 103): xml2js builds the tree of a text libxmljs has parsed
ParseXml ==
    /\ pc = "parse"
    /\ xmlObj' = xml.tree
    /\ pc' = "find"
    /\ UNCHANGED <<earlier, xml, stmts, result, err, returned>>

\* step 4 (parser.ts 106-119)
FindStatements ==
    /\ pc = "find"
    /\ LET docRoot == Prop(xmlObj, "Document")
           stmtContainer == OrElse(Prop(docRoot, "BkToCstmrStmt"),
                                   Prop(docRoot, "BankToCustomerStatementV13"))
           Stmt == Prop(stmtContainer, "Stmt")
       IN IF ~Truthy(docRoot)
          THEN Reject(Camt053ParserError("Missing <Document> root")) /\ UNCHANGED stmts
          ELSE IF ~Truthy(stmtContainer)
          THEN Reject(Camt053ParserError("Missing statement container")) /\ UNCHANGED stmts
          ELSE IF Stmt.k = "arr"
          THEN stmts' = Stmt.a /\ pc' = "map" /\ UNCHANGED <<err, returned>>
          ELSE IF Truthy(Stmt)
          THEN stmts' = <<Stmt>> /\ pc' = "map" /\ UNCHANGED <<err, returned>>
          ELSE Reject(Camt053ParserError("No <Stmt> found")) /\ UNCHANGED stmts
    /\ UNCHANGED <<earlier, xml, xmlObj, result>>

\* step 5 (parser.ts 122-362): the callback of stmts.map for the next statement
MapStatement ==
    /\ pc = "map"
    /\ Len(result) < Len(stmts)
    /\ LET idx == Len(result)
           stmt == stmts[idx + 1]
       IN IF statementThrows(stmt)
          THEN Reject(TypeError) /\ UNCHANGED result
          ELSE /\ result' = Append(result, mapStatement(stmt, idx))
               /\ UNCHANGED <<pc, err, returned>>
    /\ UNCHANGED <<earlier, xml, xmlObj, stmts>>

\* parser.ts 364: return result
Return ==
    /\ pc = "map"
    /\ Len(result) = Len(stmts)
    /\ pc' = "done"
    /\ returned' = "resolved"
    /\ UNCHANGED <<earlier, xml, xmlObj, stmts, result, err>>

Next ==
    \/ DetectNamespace
    \/ ValidateXml
    \/ ParseXml
    \/ FindStatements
    \/ MapStatement
    \/ Return

----------------------------------------------------------------------------
(* The inputs: what xml2js (explicitArray: false, mergeAttrs: true) builds.   *)
(* A text-only element is a string, an empty element (<X/>) is "", an         *)
(* element with attributes or children is an object (its text under "_"),     *)
(* and an element that repeats is an array of two or more.  An element        *)
(* written with a namespace prefix is stored under its prefixed name, so      *)
(* any plain element name can be missing from a tree.                         *)

MaxNtry == 2    \* entries of a statement in the shape family
MaxTx == 2      \* transaction-detail blocks of an entry in the shape family
MaxStmt == 2    \* statements of a document in the several-statement family

\* an element with the children (or attributes) of pairs whose value is not Null;
\* an element left with none is the empty string
MkObj(pairs) ==
    LET present == {p \in pairs : p[2] # Null}
    IN IF present = {} THEN Str("")
       ELSE Obj([key \in {p[1] : p \in present} |->
                    (CHOOSE p \in present : p[1] = key)[2]])

\* a text element that also carries an attribute (a namespace declaration);
\* xml2js drops an empty text
Attributed(text) ==
    MkObj({<<"_", IF text = "" THEN Null ELSE Str(text)>>, <<"xmlns:x", Str("urn:x")>>})

\* an element that occurs n times: absent, alone, or an array
Repeated(items) ==
    IF Len(items) = 0 THEN Null ELSE IF Len(items) = 1 THEN items[1] ELSE Arr(items)

\* sequences over S of a length from lo to hi
SeqsOf(S, lo, hi) == UNION {[1..n -> S] : n \in lo..hi}

GoodText == "<Document xmlns=\"urn:iso:std:iso:20022:tech:xsd:camt.053.001.08\">"

Texts ==
    {GoodText,
     "<Document xmlns:xsi=\"http://www.w3.org/2001/XMLSchema-instance\" xmlns=\"urn:iso:std:iso:20022:tech:xsd:camt.053.001.02\">",
     "<?xml version=\"1.0\"?><Document xmlns=\"urn:iso:std:iso:20022:tech:xsd:camt.053.001.13\" >",
     "<Document xmlns=\"urn:iso:std:iso:20022:tech:xsd:camt.052.001.08\">",
     "<Document xmlns=\"\">",
     "<Document>",
     "<ns:Document xmlns:ns=\"urn:iso:std:iso:20022:tech:xsd:camt.053.001.08\">"}

Verdicts == {"valid", "invalid", "malformed"}

\* the tree under the root element Document
DocOf(children) == Obj([Document |-> MkObj(children \cup {<<"xmlns", Str("urn")>>})])

\* a document with one statement container holding the Stmt value
DocOfStmt(Stmt) ==
    DocOf({<<"BkToCstmrStmt",
             MkObj({<<"GrpHdr", Obj([MsgId |-> Str("M1")])>>, <<"Stmt", Stmt>>})>>})

ValidInput(tree) == [text |-> GoodText, verdict |-> "valid", tree |-> tree]

\* a statement: its Id, its account currency, its entries, and further children
StmtOf(Id, Ccy, ntries, more) ==
    MkObj({<<"Id", Id>>,
           <<"Acct", MkObj({<<"Id", Obj([IBAN |-> Str("SE00")])>>, <<"Ccy", Ccy>>})>>,
           <<"Ntry", Repeated(ntries)>>} \cup more)

\* a plain statement with the entries given
PlainStmt(ntries) == StmtOf(Str("S1"), Str("EUR"), ntries, {})

----------------------------------------------------------------------------
(* Family 1: the preconditions *)

SmallNtry == Obj([NtryRef |-> Str("E1"), Amt |-> Str("5.00"), CdtDbtInd |-> Str("CRDT")])

\* trees of texts the validator turns down: the one of the test suite, and a usual one
RejectedTrees ==
    {DocOf({<<"Invalid", Str("")>>}),
     DocOfStmt(PlainStmt(<<SmallNtry>>))}

\* trees of texts the validator accepts: an element written with a namespace prefix
\* is stored under its prefixed name, so the plain name can be missing
AcceptedTrees ==
    {Obj(("ns:Document" :> Obj([BkToCstmrStmt |-> Obj([Stmt |-> PlainStmt(<<>>)])]))),
     DocOf({<<"p:BkToCstmrStmt", Obj([Stmt |-> PlainStmt(<<>>)])>>}),
     DocOf({<<"BkToCstmrStmt",
              Obj(("GrpHdr" :> Obj([MsgId |-> Str("M1")])) @@ ("p:Stmt" :> PlainStmt(<<>>)))>>}),
     DocOfStmt(PlainStmt(<<SmallNtry>>)),
     DocOfStmt(Arr(<<PlainStmt(<<SmallNtry>>), PlainStmt(<<>>)>>))}

PreconditionInputs ==
    {[text |-> t, verdict |-> v, tree |-> tr] :
        t \in Texts, v \in {"invalid", "malformed"}, tr \in RejectedTrees}
    \cup {[text |-> t, verdict |-> "valid", tree |-> tr] : t \in Texts, tr \in AcceptedTrees}

----------------------------------------------------------------------------
(* Family 2: the shapes of Ntry, NtryDtls and TxDtls *)

\* NtryDtls of an entry: absent, empty, with Btch only, with n TxDtls, or repeated
ShapeKinds ==
    {[shape |-> sh, n |-> 0] : sh \in {"none", "blank", "batch"}}
    \cup {[shape |-> "blocks", n |-> n] : n \in 1..MaxTx}
    \cup {[shape |-> "repeated", n |-> 2]}

\* detail j of entry i, told apart by its end-to-end id
ShapeDetail(i, j) ==
    Obj([Refs |-> Obj([EndToEndId |-> Str("E" \o ToString(i) \o "D" \o ToString(j))])])

ShapeNtryDtls(kind, i) ==
    CASE kind.shape = "none" -> Null
      [] kind.shape = "blank" -> Str("")
      [] kind.shape = "batch" -> Obj([Btch |-> Obj([NbOfTxs |-> Str("0")])])
      [] kind.shape = "blocks" ->
            Obj([TxDtls |-> Repeated([j \in 1..kind.n |-> ShapeDetail(i, j)])])
      [] kind.shape = "repeated" ->
            Arr([j \in 1..kind.n |-> Obj([TxDtls |-> ShapeDetail(i, j)])])

ShapeNtry(kind, i) ==
    MkObj({<<"NtryRef", Str("E" \o ToString(i))>>,
           <<"Amt", Obj(("_" :> Str("100.00")) @@ ("Ccy" :> Str("EUR")))>>,
           <<"CdtDbtInd", Str("CRDT")>>,
           <<"NtryDtls", ShapeNtryDtls(kind, i)>>})

ShapeInputs ==
    {ValidInput(DocOfStmt(PlainStmt([i \in 1..Len(ks) |-> ShapeNtry(ks[i], i)]))) :
        ks \in SeqsOf(ShapeKinds, 0, MaxNtry)}

----------------------------------------------------------------------------
(* Family 3: several statements in one document *)

StmtKinds ==
    {StmtOf(Str("S1"), Str("EUR"), <<>>, {}),
     StmtOf(Str("S2"), Str("SEK"), <<ShapeNtry([shape |-> "blocks", n |-> 2], 1)>>, {})}

SeveralInputs ==
    {ValidInput(DocOfStmt(Arr(ss))) : ss \in SeqsOf(StmtKinds, 2, MaxStmt)}

----------------------------------------------------------------------------
(* Family 4: the texts of the description and of its fallback *)

Absent == Null
Blank == Str("")

\* one entry with one detail (or none) and the text sources given
TextInput(withDetail, Ustrd, AddtlRmtInf, AddtlNtryInf, AddtlTxInf, AcctSvcrRef, InstrId, Id) ==
    LET txDtls ==
            MkObj({<<"Refs", MkObj({<<"EndToEndId", Str("E2E")>>, <<"InstrId", InstrId>>})>>,
                   <<"RmtInf", MkObj({<<"Ustrd", Ustrd>>,
                                      <<"Strd", MkObj({<<"AddtlRmtInf", AddtlRmtInf>>})>>})>>,
                   <<"AddtlTxInf", AddtlTxInf>>})
        ntry ==
            MkObj({<<"Amt", Str("5.00")>>,
                   <<"CdtDbtInd", Str("DBIT")>>,
                   <<"AcctSvcrRef", AcctSvcrRef>>,
                   <<"AddtlNtryInf", AddtlNtryInf>>,
                   <<"NtryDtls", IF withDetail THEN Obj([TxDtls |-> txDtls]) ELSE Null>>})
    IN ValidInput(DocOfStmt(StmtOf(Id, Str("EUR"), <<ntry>>, {})))

UstrdValues == {Absent, Blank, Str("U"), Arr(<<Str("U1"), Str("U2")>>), Attributed("U")}
AddtlRmtInfValues == {Absent, Blank, Str("R"), Arr(<<Str("R1"), Str("R2")>>)}
AddtlNtryInfValues == {Absent, Blank, Str("N")}
AddtlTxInfValues == {Absent, Blank, Str("T"), Attributed("T")}

\* a reference: absent, empty, or a text
RefValues(text) == {Absent, Blank, Str(text)}

TextInputs ==
    {TextInput(TRUE, u, r, n, t, Absent, Absent, Str("S")) :
        u \in UstrdValues, r \in AddtlRmtInfValues, n \in AddtlNtryInfValues,
        t \in AddtlTxInfValues}
    \cup {TextInput(d, e, e, e, e, a, i, s) :
        d \in BOOLEAN, e \in {Absent, Blank},
        a \in RefValues("A"), i \in RefValues("I"), s \in RefValues("S")}
    \cup {TextInput(FALSE, Absent, Absent, n, Absent, a, Absent, s) :
        n \in AddtlNtryInfValues, a \in RefValues("A"), s \in RefValues("S")}

----------------------------------------------------------------------------
(* Family 5: the currency of the account, of the entry and of the detail *)

\* an amount element: its text and its Ccy attribute (either may be missing)
AmtOf(text, Ccy) == MkObj({<<"_", text>>, <<"Ccy", Ccy>>})

AcctValues ==
    {Absent,
     Obj([Id |-> Obj([IBAN |-> Str("SE00")])]),
     Arr(<<Obj([Ccy |-> Str("EUR")]), Obj([Ccy |-> Str("SEK")])>>)}
    \cup {Obj([Ccy |-> c]) :
            c \in {Blank, Str("EUR"), Attributed("EUR"), Attributed(""),
                   Arr(<<Str("EUR"), Str("SEK")>>)}}

NtryAmtValues ==
    {Absent, Str("100.00"), AmtOf(Str("100.00"), Str("USD")), AmtOf(Str("100.00"), Absent),
     AmtOf(Absent, Str("USD"))}

\* the detail of the entry: none, or one with the Amt given
DetailAmtValues ==
    {Absent, Str("40.00"), Str("0"), AmtOf(Str("40.00"), Str("GBP")),
     AmtOf(Str("0.00"), Str("GBP")), AmtOf(Str("60.00"), Absent), AmtOf(Absent, Str("GBP")),
     AmtOf(Str("7.5"), Blank)}

CurrencyInput(Acct, ntryAmt, withDetail, txAmt) ==
    LET txDtls == MkObj({<<"Refs", Obj([EndToEndId |-> Str("E2E")])>>, <<"Amt", txAmt>>})
        ntry == MkObj({<<"Amt", ntryAmt>>,
                       <<"CdtDbtInd", Str("CRDT")>>,
                       <<"NtryDtls", IF withDetail THEN Obj([TxDtls |-> txDtls]) ELSE Null>>})
    IN ValidInput(DocOfStmt(MkObj({<<"Id", Str("S1")>>, <<"Acct", Acct>>, <<"Ntry", ntry>>})))

CurrencyInputs ==
    {CurrencyInput(a, n, TRUE, t) : a \in AcctValues, n \in NtryAmtValues, t \in DetailAmtValues}
    \cup {CurrencyInput(a, n, FALSE, Absent) : a \in AcctValues, n \in NtryAmtValues}

----------------------------------------------------------------------------
(* Family 6: a batch entry of two details, with amounts and booking dates *)

BookgDtValues(day) ==
    {Absent, Obj([Dt |-> Str(day)]), Obj([DtTm |-> Str(day \o "T10:00:00+01:00")]),
     Obj([Dt |-> Blank])}

BatchDetails ==
    {MkObj({<<"Refs", Obj([EndToEndId |-> Str("E2E")])>>, <<"Amt", a>>, <<"BookgDt", d>>}) :
        a \in {Absent, AmtOf(Str("40.00"), Str("EUR")), AmtOf(Str("60.00"), Str("EUR")),
               AmtOf(Str("0.00"), Str("EUR"))},
        d \in {Absent, Obj([Dt |-> Str("2024-02-01")])}}

BatchInput(BookgDt, details) ==
    ValidInput(DocOfStmt(PlainStmt(<<
        MkObj({<<"Amt", AmtOf(Str("100.00"), Str("EUR"))>>,
               <<"CdtDbtInd", Str("CRDT")>>,
               <<"BookgDt", BookgDt>>,
               <<"NtryDtls", Obj([Btch |-> Obj([NbOfTxs |-> Str("2")]),
                                  TxDtls |-> Arr(details)])>>})>>)))

BatchInputs ==
    {BatchInput(b, <<d1, d2>>) :
        b \in BookgDtValues("2024-01-15"), d1 \in BatchDetails, d2 \in BatchDetails}

----------------------------------------------------------------------------
(* Family 7: the references of an entry with or without a detail *)

ReferenceDetails ==
    {Absent,
     Obj([Refs |-> Obj([Prtry |-> Obj([Tp |-> Str("X"), Ref |-> Str("P")])])]),
     Obj([Refs |-> Obj([InstrId |-> Str("I")])])}

ReferenceInput(AcctSvcrRef, NtryRef, CdtDbtInd, AddtlNtryInf, txDtls) ==
    ValidInput(DocOfStmt(PlainStmt(<<
        MkObj({<<"Amt", AmtOf(Str("100.00"), Str("EUR"))>>,
               <<"BookgDt", Obj([Dt |-> Str("2024-01-15")])>>,
               <<"CdtDbtInd", CdtDbtInd>>,
               <<"AcctSvcrRef", AcctSvcrRef>>,
               <<"NtryRef", NtryRef>>,
               <<"AddtlNtryInf", AddtlNtryInf>>,
               <<"NtryDtls", MkObj({<<"TxDtls", txDtls>>})>>})>>)))

ReferenceInputs ==
    {ReferenceInput(a, n, c, t, d) :
        a \in RefValues("A"), n \in RefValues("NR"),
        c \in {Absent, Str("CRDT"), Str("DBIT"), Str("XXXX")},
        t \in {Absent, Str("N")}, d \in ReferenceDetails}

----------------------------------------------------------------------------
(* Family 8: the balance blocks of a statement *)

MaxBal == 3     \* balance blocks of a statement in the balance family

\* a balance block: its type code, its amount, its date
BalOf(Cd, Amt, Dt) ==
    MkObj({<<"Tp", Obj([CdOrPrtry |-> Obj([Cd |-> Str(Cd)])])>>,
           <<"Amt", Amt>>,
           <<"CdtDbtInd", Str("CRDT")>>,
           <<"Dt", IF Dt = Absent THEN Absent ELSE Obj([Dt |-> Dt])>>})

BalKinds ==
    {BalOf("OPBD", AmtOf(Str("40.00"), Str("EUR")), Str("2024-01-20")),
     BalOf("OPBD", AmtOf(Str("60.00"), Str("EUR")), Str("2024-01-10")),
     BalOf("CLBD", AmtOf(Str("100.00"), Str("EUR")), Str("2024-01-31")),
     BalOf("CLBD", Str("5.00"), Absent),
     BalOf("ITBD", AmtOf(Str("7.5"), Str("EUR")), Str("2024-01-05")),
     BalOf("OPBD", Absent, Absent)}

\* a statement without period and creation date, with one dated entry
BalanceInput(bals) ==
    ValidInput(DocOfStmt(StmtOf(Str("S1"), Str("EUR"),
        <<Obj([Amt |-> Str("5.00"), CdtDbtInd |-> Str("CRDT"),
               BookgDt |-> Obj([Dt |-> Str("2024-01-15")])])>>,
        {<<"Bal", Repeated(bals)>>})))

BalanceInputs == {BalanceInput(bals) : bals \in SeqsOf(BalKinds, 0, MaxBal)}

----------------------------------------------------------------------------
(* Family 9: the tiers of the statement date *)

\* a statement with the period end, the creation date, the balance and the
\* entries given; the period start is always there
TierInput(ToDtTm, ToDt, CreDtTm, Bal, ntries) ==
    ValidInput(DocOfStmt(StmtOf(Str("S1"), Str("EUR"), ntries,
        {<<"FrToDt", MkObj({<<"FrDtTm", Str("2024-03-01T00:00:00")>>,
                            <<"ToDtTm", ToDtTm>>, <<"ToDt", ToDt>>})>>,
         <<"CreDtTm", CreDtTm>>,
         <<"Bal", Bal>>})))

TierEntries ==
    {<<>>,
     <<Obj([Amt |-> Str("5.00"), CdtDbtInd |-> Str("CRDT"),
            BookgDt |-> Obj([Dt |-> Str("2024-03-15")])])>>,
     <<Obj([Amt |-> Str("5.00"), CdtDbtInd |-> Str("CRDT")])>>}

TierInputs ==
    {TierInput(a, b, c, d, e) :
        a \in {Absent, Str("2024-03-31T23:59:59"), Str("n/a")},
        b \in {Absent, Str("2024-03-30")},
        c \in {Absent, Str("2024-04-01T08:00:00"), Str("n/a")},
        d \in {Absent, BalOf("CLBD", Str("100.00"), Str("2024-03-29")),
               BalOf("CLBD", Str("100.00"), Absent)},
        e \in TierEntries}

----------------------------------------------------------------------------
(* Family 10: the booking dates of entries and details *)

\* the details of an entry, each with its booking date (Absent for none)
DatedDetails ==
    {<<>>, <<Absent>>, <<Str("2024-02-01")>>, <<Absent, Str("2024-01-02")>>,
     <<Str("2024-02-01"), Str("2024-01-02")>>}

DatedNtry(Dt, details) ==
    MkObj({<<"Amt", Str("5.00")>>,
           <<"CdtDbtInd", Str("DBIT")>>,
           <<"BookgDt", IF Dt = Absent THEN Absent ELSE Obj([Dt |-> Dt])>>,
           <<"NtryDtls",
             IF details = <<>> THEN Absent
             ELSE Obj([TxDtls |-> Repeated([j \in 1..Len(details) |->
                        MkObj({<<"Refs", Obj([EndToEndId |-> Str("E2E")])>>,
                               <<"BookgDt", IF details[j] = Absent THEN Absent
                                            ELSE Obj([Dt |-> details[j]])>>})])])>>})

DatedNtries == {DatedNtry(Dt, ds) : Dt \in {Absent, Str("2024-01-15")}, ds \in DatedDetails}

TransactionDateInputs ==
    {ValidInput(DocOfStmt(PlainStmt(ntries))) : ntries \in SeqsOf(DatedNtries, 1, MaxNtry)}

----------------------------------------------------------------------------
(* Family 11: numbers that do not parse *)

\* a statement with a sequence number, a balance, a summary and one entry with
\* one detail; the texts of the amounts are given
NumberInput(LglSeqNb, ElctrncSeqNb, balAmt, Sum, ntryAmt, txAmt) ==
    ValidInput(DocOfStmt(StmtOf(Str("S1"), Str("EUR"),
        <<MkObj({<<"Amt", AmtOf(ntryAmt, Str("EUR"))>>,
                 <<"CdtDbtInd", Str("CRDT")>>,
                 <<"NtryDtls", Obj([TxDtls |->
                      MkObj({<<"Refs", Obj([EndToEndId |-> Str("E2E")])>>,
                             <<"Amt", IF txAmt = Absent THEN Absent
                                      ELSE AmtOf(txAmt, Str("EUR"))>>})])>>})>>,
        {<<"LglSeqNb", LglSeqNb>>,
         <<"ElctrncSeqNb", ElctrncSeqNb>>,
         <<"Bal", BalOf("OPBD", balAmt, Str("2024-01-10"))>>,
         <<"TxsSummry",
           Obj([TtlCdtNtries |-> Obj([NbOfNtries |-> Str("1"), Sum |-> Sum]),
                TtlDbtNtries |-> Obj([Sum |-> Str("40.00")])])>>})))

NumberInputs ==
    {NumberInput(l, e, b, s, n, t) :
        l \in {Absent, Str("7"), Str("abc")},
        e \in {Absent, Str("3")},
        b \in {Str("100.00"), Str("abc")},
        s \in {Str("60.00"), Str("abc")},
        n \in {Str("5.00"), Str("abc")},
        t \in {Absent, Str("40.00"), Str("abc")}}

----------------------------------------------------------------------------
(* Family 12: the related parties of a detail *)

\* a party and its account: name, name of the party sub-object, IBAN, other id
PartyOf(who, Nm, PtyNm, IBAN, OthrId) ==
    {<<who, MkObj({<<"Nm", Nm>>, <<"Pty", MkObj({<<"Nm", PtyNm>>})>>})>>,
     <<who \o "Acct",
       MkObj({<<"Id", MkObj({<<"IBAN", IBAN>>, <<"Othr", MkObj({<<"Id", OthrId>>})>>})>>})>>}

\* the party the direction selects, in the states the lookup tells apart
Parties(who) ==
    {PartyOf(who, n[1], n[2], a[1], a[2]) :
        n \in {<<Absent, Absent>>, <<Str(who \o "N"), Absent>>, <<Absent, Str(who \o "P")>>,
               <<Str(who \o "N"), Str(who \o "P")>>, <<Blank, Str(who \o "P")>>},
        a \in {<<Absent, Absent>>, <<Str(who \o "I"), Absent>>, <<Absent, Str(who \o "O")>>,
               <<Str(who \o "I"), Str(who \o "O")>>}}

\* the other party, with every field there
FullParty(who) ==
    PartyOf(who, Str(who \o "N"), Str(who \o "P"), Str(who \o "I"), Str(who \o "O"))

\* one entry with one detail: its direction, its references, its related parties
PartyInput(CdtDbtInd, AcctSvcrRef, NtryRef, PrtryRef, parties) ==
    ValidInput(DocOfStmt(PlainStmt(<<
        MkObj({<<"Amt", AmtOf(Str("100.00"), Str("EUR"))>>,
               <<"CdtDbtInd", CdtDbtInd>>,
               <<"AcctSvcrRef", AcctSvcrRef>>,
               <<"NtryRef", NtryRef>>,
               <<"NtryDtls", Obj([TxDtls |->
                    MkObj({<<"Refs", MkObj({<<"Prtry",
                                MkObj({<<"Tp", Str("X")>>, <<"Ref", PrtryRef>>})>>})>>,
                           <<"RltdPties", MkObj(parties)>>})])>>})>>)))

PartyInputs ==
    {PartyInput(Str("CRDT"), a, n, r, ps \cup FullParty("Cdtr")) :
        a \in {Absent, Str("A")}, n \in {Absent, Str("NR")}, r \in {Absent, Str("P")},
        ps \in Parties("Dbtr")}
    \cup {PartyInput(Str("DBIT"), a, n, r, ps \cup FullParty("Dbtr")) :
        a \in {Absent, Str("A")}, n \in {Absent, Str("NR")}, r \in {Absent, Str("P")},
        ps \in Parties("Cdtr")}
    \cup {PartyInput(Absent, a, n, r, ps \cup FullParty("Cdtr")) :
        a \in {Absent, Str("A")}, n \in {Absent, Str("NR")}, r \in {Absent, Str("P")},
        ps \in Parties("Dbtr")}

----------------------------------------------------------------------------
(* Family 13: what extractDate is given *)

\* the booking date of an entry: a text, or a node with Dt, DtTm or both
DateValues ==
    {Str("2024-01-15"), Str("2024-01-15T10:00:00+01:00"), Str("2024-01-15+01:00"),
     Str("booked 2024-01-15"), Str("2024-01-15/2024-01-20"), Str("n/a"), Str("2024-1-5"),
     Str("20240115"),
     Obj([Dt |-> Str("2024-01-15")]),
     Obj([DtTm |-> Str("2024-01-20T10:00:00Z")]),
     Obj([Dt |-> Str("2024-01-15"), DtTm |-> Str("2024-01-20T10:00:00Z")]),
     Obj([Dt |-> Str("n/a"), DtTm |-> Str("2024-01-20T10:00:00Z")]),
     Obj([Dt |-> Blank, DtTm |-> Str("2024-01-20T10:00:00Z")]),
     Obj([Dt |-> Attributed("2024-01-15")]),
     Obj([Dt |-> Obj([DtTm |-> Str("2024-01-20T10:00:00Z")])]),
     Obj([DtTm |-> Str("n/a")]),
     Attributed("2024-01-15")}

\* a statement with a creation date and the entries given, each without detail
\* and with its booking date
ExtractDateInput(dates) ==
    ValidInput(DocOfStmt(StmtOf(Str("S1"), Str("EUR"),
        [e \in 1..Len(dates) |->
            Obj([Amt |-> Str("5.00"), CdtDbtInd |-> Str("CRDT"), BookgDt |-> dates[e]])],
        {<<"CreDtTm", Str("2024-04-01T08:00:00")>>})))

\* one entry, or two: the booking date of each entry is extracted on its own
ExtractDateInputs == {ExtractDateInput(dates) : dates \in SeqsOf(DateValues, 1, 2)}

----------------------------------------------------------------------------
(* Family 14: entries without TxDtls *)

\* an entry without TxDtls: NtryDtls is missing or holds only a batch summary
LoneNtry(NtryRef, CdtDbtInd, Amt, BookgDt, NtryDtls) ==
    MkObj({<<"AcctSvcrRef", Str("A")>>,
           <<"NtryRef", NtryRef>>,
           <<"CdtDbtInd", CdtDbtInd>>,
           <<"Amt", Amt>>,
           <<"BookgDt", BookgDt>>,
           <<"NtryDtls", NtryDtls>>})

LoneNtries ==
    {LoneNtry(r, c, a, d, n) :
        r \in {Absent, Blank, Str("NR")},
        c \in {Absent, Str("CRDT"), Str("DBIT")},
        a \in {Absent, Str("5.00"), AmtOf(Str("0.00"), Str("GBP"))},
        d \in {Absent, Obj([Dt |-> Str("2024-01-15")])},
        n \in {Absent, Obj([Btch |-> Obj([NbOfTxs |-> Str("2")])])}}

\* an entry with one detail that states everything itself
DetailedNtry ==
    Obj([NtryRef |-> Str("E0"), CdtDbtInd |-> Str("DBIT"), Amt |-> Str("40.00"),
         NtryDtls |-> Obj([TxDtls |->
            Obj([Refs |-> Obj([EndToEndId |-> Str("E2E")]),
                 Purp |-> Obj([Cd |-> Str("SALA")]),
                 RmtInf |-> Obj([Strd |-> Obj([CdtrRefInf |-> Obj([Ref |-> Str("RF1")])])])])])])

\* a statement with or without currency: the entry alone, or after a detailed one
LoneInputs ==
    {ValidInput(DocOfStmt(StmtOf(Str("S1"), Ccy, before \o <<ntry>>, {}))) :
        Ccy \in {Absent, Str("EUR")},
        before \in {<<>>, <<DetailedNtry>>},
        ntry \in LoneNtries}

----------------------------------------------------------------------------
(* The specification *)

Inputs ==
    PreconditionInputs \cup ShapeInputs \cup SeveralInputs \cup TextInputs
    \cup CurrencyInputs \cup BatchInputs \cup ReferenceInputs
    \cup BalanceInputs \cup TierInputs \cup TransactionDateInputs \cup NumberInputs
    \cup PartyInputs \cup ExtractDateInputs \cup LoneInputs

\* no call was made before this one
NoCall == [stmts |-> <<>>, result |-> <<>>, returned |-> "none"]

Init ==
    /\ xml \in Inputs
    /\ pc = "start"
    /\ xmlObj = Null
    /\ stmts = <<>>
    /\ result = <<>>
    /\ err = NoError
    /\ returned = "pending"
    /\ earlier = NoCall

Spec == Init /\ [][Next]_vars

----------------------------------------------------------------------------
(* Two calls in a row (parse-samples.ts 9-23): documents of two statements  *)
(* of two entries each, the second document one statement apart from the    *)
(* first, or the same                                                       *)

PairNtries ==
    {ShapeNtry([shape |-> "none", n |-> 0], 1),
     ShapeNtry([shape |-> "blocks", n |-> 2], 2),
     MkObj({<<"NtryRef", Str("E3")>>,
            <<"Amt", Str("5.00")>>,
            <<"CdtDbtInd", Str("DBIT")>>,
            <<"NtryDtls", Obj([TxDtls |->
                 Obj([RmtInf |-> Obj([Ustrd |-> Str("U")]),
                      AddtlTxInf |-> Attributed("T")])])>>})}

PairStmts ==
    {PlainStmt(<<a, b>>) : a, b \in PairNtries}
    \cup {StmtOf(Str("S2"), Str("SEK"), <<>>, {})}

PairInputs == {ValidInput(DocOfStmt(Arr(<<a, b>>))) : a, b \in PairStmts}

\* the statements of a document of the pair family
PairOf(input) == input.tree.f.Document.f.BkToCstmrStmt.f.Stmt.a

\* the loop of main: the call has ended, and parseCamt053 is called with the
\* next file, which is the same document or one that differs in one statement
ParseAgain ==
    /\ pc \in {"done", "failed"}
    /\ earlier = NoCall
    /\ earlier' = [stmts |-> stmts, result |-> result, returned |-> returned]
    /\ xml' \in {x \in PairInputs :
                    \E j \in 1..2 : \A i \in (1..2) \ {j} : PairOf(x)[i] = PairOf(xml)[i]}
    /\ pc' = "start"
    /\ xmlObj' = Null
    /\ stmts' = <<>>
    /\ result' = <<>>
    /\ err' = NoError
    /\ returned' = "pending"

TwiceInit ==
    /\ xml \in PairInputs
    /\ pc = "start"
    /\ xmlObj = Null
    /\ stmts = <<>>
    /\ result = <<>>
    /\ err = NoError
    /\ returned = "pending"
    /\ earlier = NoCall

TwiceNext == Next \/ ParseAgain

Twice == TwiceInit /\ [][TwiceNext]_vars

----------------------------------------------------------------------------
(* What the claims speak of, read off the input tree *)

\* the occurrences of the child element key of v, in document order
ChildList(v, key) ==
    IF v.k = "obj" /\ key \in DOMAIN v.f
    THEN (IF v.f[key].k = "arr" THEN v.f[key].a ELSE <<v.f[key]>>)
    ELSE <<>>

\* the only occurrence of the child element key of v, Null when there is none
Child(v, key) == IF v.k = "obj" /\ key \in DOMAIN v.f THEN v.f[key] ELSE Null

\* a text that is there and is not empty
NonEmptyText(v) == v.k = "str" /\ v.s # ""

RECURSIVE SumOf(_)
SumOf(ns) == IF ns = <<>> THEN 0 ELSE Head(ns) + SumOf(Tail(ns))

Max(a, b) == IF a >= b THEN a ELSE b

Finished == pc = "done"

\* the transaction-detail blocks of an entry, over all its NtryDtls blocks
DetailCount(ntry) ==
    LET blocks == ChildList(ntry, "NtryDtls")
    IN SumOf([b \in 1..Len(blocks) |-> Len(ChildList(blocks[b], "TxDtls"))])

\* the first precondition the input violates, in the order of the checks ("" if none)
FirstViolation ==
    LET namespace == detectNamespace(xml.text)
        root == Child(xml.tree, "Document")
        container == IF Child(root, "BkToCstmrStmt") \notin {Null, Str("")}
                     THEN Child(root, "BkToCstmrStmt")
                     ELSE Child(root, "BankToCustomerStatementV13")
    IN IF namespace = Null \/ namespace.s \notin DOMAIN NAMESPACE_TO_XSD
          THEN "Unsupported or missing CAMT.053 namespace"
       ELSE IF xml.verdict = "malformed" THEN "Invalid XML: "
       ELSE IF xml.verdict = "invalid" THEN "XSD validation failed: "
       ELSE IF root \in {Null, Str("")} THEN "Missing <Document> root"
       ELSE IF container \in {Null, Str("")} THEN "Missing statement container"
       ELSE IF Child(container, "Stmt") \in {Null, Str("")} THEN "No <Stmt> found"
       ELSE ""

----------------------------------------------------------------------------
(* C1 *)

\* C1: in every returned statement the number of transactions is the sum, over
\* the entries of the statement, of max(1, number of TxDtls blocks of the entry);
\* a statement without entries has an empty list.
C1_TransactionCount ==
    Finished =>
        \A i \in 1..Len(stmts) :
            LET ntries == ChildList(stmts[i], "Ntry")
            IN Len(result[i].transactions)
                 = SumOf([e \in 1..Len(ntries) |-> Max(1, DetailCount(ntries[e]))])

----------------------------------------------------------------------------
(* C2 *)

\* the checks that run before the tree is built
BeforeTree ==
    {"Unsupported or missing CAMT.053 namespace", "Invalid XML: ", "XSD validation failed: "}

\* C2: an input that violates a precondition is rejected with a Camt053ParserError
\* naming the first violated check in the order namespace, validation, tree,
\* container, Stmt; no list is returned and no statement is mapped before.
C2_PreconditionsFatal ==
    FirstViolation # "" =>
        /\ pc \notin {"map", "done"}
        /\ returned # "resolved"
        /\ result = <<>>
        /\ stmts = <<>>
        /\ pc = "failed" =>
              /\ err = Camt053ParserError(FirstViolation)
              /\ returned = "rejected"
              /\ FirstViolation \in BeforeTree => xmlObj = Null

\* C2 happens: the last of the checks, a container without Stmt, rejects
C2_Witness ==
    /\ pc = "failed"
    /\ err = Camt053ParserError("No <Stmt> found")
    /\ xmlObj # Null
    /\ result = <<>>

----------------------------------------------------------------------------
(* C3 *)

\* C3 as stated: a statement without any Ntry makes the whole parse fail, so no
\* parse that returns holds a statement without entries.
C3_NoEntriesIsFatal ==
    Finished => \A i \in 1..Len(stmts) : ChildList(stmts[i], "Ntry") # <<>>

\* C3 as amended: a statement without any Ntry raises no document-level error;
\* the parse returns and the statement's transactions list is empty.
C3_NoEntriesEmptyList ==
    /\ (FirstViolation = "" /\ \A i \in 1..Len(stmts) : ChildList(stmts[i], "Ntry") = <<>>)
          => pc # "failed"
    /\ Finished =>
          \A i \in 1..Len(stmts) :
              ChildList(stmts[i], "Ntry") = <<>> => result[i].transactions = <<>>

\* C3 happens: a parse returned a statement that has no entries
C3_Witness ==
    /\ Finished
    /\ \E i \in 1..Len(stmts) :
          ChildList(stmts[i], "Ntry") = <<>> /\ result[i].transactions = <<>>

----------------------------------------------------------------------------
(* C4 *)

\* C4: once the preconditions hold the mapping never aborts: whatever the shape
\* of the subtrees, the parse does not fail and maps every statement.
C4_ResolutionTotal ==
    FirstViolation = "" =>
        /\ pc # "failed"
        /\ Finished => Len(result) = Len(stmts)

----------------------------------------------------------------------------
(* The entry and the detail each emitted transaction was made from *)

RECURSIVE FlatSources(_)
FlatSources(ntries) ==
    IF ntries = <<>> THEN <<>>
    ELSE LET ntry == Head(ntries)
             txDtlsArr == txDtlsArrOf(ntry)
         IN [j \in 1..Len(txDtlsArr) |-> [ntry |-> ntry, txDtls |-> txDtlsArr[j]]]
            \o FlatSources(Tail(ntries))

\* SourcesOf(stmt)[t] is the source of transaction t of the statement
SourcesOf(stmt) == FlatSources(ntriesOf(stmt))

\* the places (statement i, transaction t) of a parse that returned
Places ==
    UNION {{<<i, t>> : t \in 1..Len(result[i].transactions)} : i \in 1..Len(result)}

Tx(p) == result[p[1]].transactions[p[2]]
NtryAt(p) == SourcesOf(stmts[p[1]])[p[2]].ntry
DetailAt(p) == SourcesOf(stmts[p[1]])[p[2]].txDtls

----------------------------------------------------------------------------
(* C5 *)

\* the account-level Ccy of a statement, Null when there is none
AccountCcy(stmt) == Child(Child(stmt, "Acct"), "Ccy")

\* C5: the currency of every returned statement is a string: the account-level
\* Ccy when that is a bare string, its text when it is a value-holder with
\* attributes, and the empty string in every other case.
C5_CurrencyIsString ==
    Finished =>
        \A i \in 1..Len(stmts) :
            LET Ccy == AccountCcy(stmts[i])
            IN /\ result[i].currency.k = "str"
               /\ result[i].currency =
                     (IF Ccy.k = "str" THEN Ccy
                      ELSE IF Ccy.k = "obj" /\ Child(Ccy, "_").k = "str" THEN Child(Ccy, "_")
                      ELSE Str(""))

\* C5 happens: a value-holder Ccy gave its text
C5_Witness ==
    /\ Finished
    /\ \E i \in 1..Len(stmts) :
          AccountCcy(stmts[i]).k = "obj" /\ result[i].currency = Str("EUR")

----------------------------------------------------------------------------
(* C6 *)

\* the Ccy attribute of the Amt of an entry or of a detail
AmtCcy(node) == Child(Child(node, "Amt"), "Ccy")

\* C6 as stated: the currency of a transaction is the detail's own Ccy if present,
\* otherwise the Ccy of the entry's Amt if present, otherwise the statement currency.
C6_InnermostCurrency ==
    Finished =>
        \A p \in Places :
            Tx(p).currency =
                (IF NonEmptyText(AmtCcy(DetailAt(p))) THEN AmtCcy(DetailAt(p))
                 ELSE IF NonEmptyText(AmtCcy(NtryAt(p))) THEN AmtCcy(NtryAt(p))
                 ELSE result[p[1]].currency)

\* C6 as amended: the detail's own Ccy if present, otherwise the statement
\* currency if it is not empty, otherwise the Ccy of the entry's Amt (and the
\* empty string when that is missing too).
C6_StatementBeforeEntry ==
    Finished =>
        \A p \in Places :
            Tx(p).currency =
                (IF NonEmptyText(AmtCcy(DetailAt(p))) THEN AmtCcy(DetailAt(p))
                 ELSE IF result[p[1]].currency # Str("") THEN result[p[1]].currency
                 ELSE IF NonEmptyText(AmtCcy(NtryAt(p))) THEN AmtCcy(NtryAt(p))
                 ELSE Str(""))

\* C6 happens: a detail without Ccy under an entry whose Ccy differs from a
\* statement currency that is not empty
C6_Witness ==
    /\ Finished
    /\ \E p \in Places :
          /\ DetailAt(p) # Null
          /\ AmtCcy(DetailAt(p)) = Null
          /\ NonEmptyText(AmtCcy(NtryAt(p)))
          /\ result[p[1]].currency # Str("")
          /\ AmtCcy(NtryAt(p)) # result[p[1]].currency
          /\ Tx(p).currency = result[p[1]].currency

----------------------------------------------------------------------------
(* C7, C8 *)

\* the four text sources of a transaction, in the order of the claim
PrimarySources(ntry, txDtls) ==
    <<Child(Child(txDtls, "RmtInf"), "Ustrd"),
      Child(Child(Child(txDtls, "RmtInf"), "Strd"), "AddtlRmtInf"),
      Child(ntry, "AddtlNtryInf"),
      Child(txDtls, "AddtlTxInf")>>

\* the three references the description falls back to, in the order of the claim
FallbackSources(stmt, ntry, txDtls) ==
    <<Child(ntry, "AcctSvcrRef"), Child(Child(txDtls, "Refs"), "InstrId"), Child(stmt, "Id")>>

\* every source is absent or a text (no repeated element, no attribute)
AllTexts(sources) == \A n \in 1..Len(sources) : sources[n].k \in {"null", "str"}

\* the first source that is there, as a list of one when it is not empty
FirstAvailable(sources) ==
    LET there == SelectSeq(sources, LAMBDA v : v # Null)
    IN IF there # <<>> /\ NonEmptyText(there[1]) THEN <<there[1]>> ELSE <<>>

RECURSIVE BarJoined(_)
\* the texts joined with " | "
BarJoined(texts) ==
    IF Len(texts) = 1 THEN texts[1].s ELSE texts[1].s \o " | " \o BarJoined(Tail(texts))

\* no reference is present and empty
NoneBlank(sources) == \A n \in 1..Len(sources) : sources[n] # Str("")

----------------------------------------------------------------------------
(* C9 *)

\* the entry has no free text of its own
NoFreeText(ntry) == ~NonEmptyText(Child(ntry, "AddtlNtryInf"))

\* C9 as stated: an entry without TxDtls gives one transaction whose counterparty
\* name and account are null and whose description falls back to AcctSvcrRef.
C9_NoCounterparty ==
    Finished =>
        \A i \in 1..Len(stmts) :
            LET ntries == ChildList(stmts[i], "Ntry")
                txs == result[i].transactions
            IN (\A e \in 1..Len(ntries) : DetailCount(ntries[e]) = 0) =>
                  /\ Len(txs) = Len(ntries)
                  /\ \A e \in 1..Len(ntries) :
                        /\ txs[e].counterpartyName = Null
                        /\ txs[e].counterpartyAccountIBAN = Null
                        /\ (NoFreeText(ntries[e]) /\ NonEmptyText(Child(ntries[e], "AcctSvcrRef")))
                              => txs[e].description = Child(ntries[e], "AcctSvcrRef")

\* C9 as amended: an entry without TxDtls gives one transaction; its counterparty
\* name is the entry's AcctSvcrRef, or NtryRef when there is no AcctSvcrRef, its
\* counterparty account is the entry's NtryRef (null only without such a
\* reference), and its description falls back to a non-empty AcctSvcrRef.
C9_ReferencesAsCounterparty ==
    Finished =>
        \A i \in 1..Len(stmts) :
            LET ntries == ChildList(stmts[i], "Ntry")
                txs == result[i].transactions
            IN (\A e \in 1..Len(ntries) : DetailCount(ntries[e]) = 0) =>
                  /\ Len(txs) = Len(ntries)
                  /\ \A e \in 1..Len(ntries) :
                        /\ txs[e].counterpartyName =
                              (IF Child(ntries[e], "AcctSvcrRef") # Null
                               THEN Child(ntries[e], "AcctSvcrRef")
                               ELSE Child(ntries[e], "NtryRef"))
                        /\ txs[e].counterpartyAccountIBAN = Child(ntries[e], "NtryRef")
                        /\ (NoFreeText(ntries[e]) /\ NonEmptyText(Child(ntries[e], "AcctSvcrRef")))
                              => txs[e].description = Child(ntries[e], "AcctSvcrRef")

\* C9 happens: an entry without TxDtls, without free text, with both references
C9_Witness ==
    /\ Finished
    /\ \E i \in 1..Len(stmts) :
          LET ntries == ChildList(stmts[i], "Ntry")
          IN /\ Len(ntries) = 1
             /\ DetailCount(ntries[1]) = 0
             /\ NoFreeText(ntries[1])
             /\ Child(ntries[1], "AcctSvcrRef") = Str("A")
             /\ Child(ntries[1], "NtryRef") = Str("NR")
             /\ Len(result[i].transactions) = 1
             /\ result[i].transactions[1].counterpartyName = Str("A")
             /\ result[i].transactions[1].counterpartyAccountIBAN = Str("NR")
             /\ result[i].transactions[1].description = Str("A")

----------------------------------------------------------------------------
(* C10 *)

\* the text of an amount element, Null when it has none
AmountText(Amt) == IF Amt.k = "str" THEN Amt ELSE Child(Amt, "_")

\* the value, in hundredths, of the amount texts the inputs use
Hundredths(text) ==
    CASE text = "0" -> 0 [] text = "0.00" -> 0 [] text = "5.00" -> 500
      [] text = "7.5" -> 750 [] text = "40.00" -> 4000 [] text = "60.00" -> 6000
      [] text = "100.00" -> 10000

\* the amount of the entry, detail or balance block is missing or a number
Parses(node) ==
    LET text == AmountText(Child(node, "Amt"))
    IN NonEmptyText(text) =>
          text.s \in {"0", "0.00", "5.00", "7.5", "40.00", "60.00", "100.00"}

\* the amount an entry or a detail states itself, Null when it states none
OwnAmount(node) ==
    LET text == AmountText(Child(node, "Amt"))
    IN IF NonEmptyText(text) THEN Num(Hundredths(text.s)) ELSE Null

\* the booking date an entry or a detail states itself (the texts of the inputs
\* start with the date), Null when it states none
OwnDate(node) ==
    LET BookgDt == Child(node, "BookgDt")
        text == IF NonEmptyText(Child(BookgDt, "Dt")) THEN Child(BookgDt, "Dt")
                ELSE Child(BookgDt, "DtTm")
    IN IF NonEmptyText(text) THEN Str(SubSeq(text.s, 1, 10)) ELSE Null

\* C10: for every detail the amount and the date of the transaction are the
\* detail's own when it has them (an amount of zero is one), and the entry's
\* only when the detail has none. The amounts are numbers (C15 is about the
\* others).
C10_DetailAmountAndDate ==
    Finished =>
        \A p \in Places :
            (DetailAt(p).k = "obj" /\ Parses(DetailAt(p)) /\ Parses(NtryAt(p))) =>
                /\ Tx(p).amount = (IF OwnAmount(DetailAt(p)) # Null
                                   THEN OwnAmount(DetailAt(p)) ELSE OwnAmount(NtryAt(p)))
                /\ Tx(p).date = (IF OwnDate(DetailAt(p)) # Null
                                 THEN OwnDate(DetailAt(p)) ELSE OwnDate(NtryAt(p)))

\* C10 happens: a batch of 100.00 with details of 40.00 and 60.00, and a batch
\* with a detail of zero
C10_Witness ==
    /\ Finished
    /\ \E i \in 1..Len(stmts) :
          LET txs == result[i].transactions
          IN /\ Len(txs) = 2
             /\ OwnAmount(NtryAt(<<i, 1>>)) = Num(10000)
             /\ OwnAmount(DetailAt(<<i, 1>>)) = Num(4000) /\ txs[1].amount = Num(4000)
             /\ OwnAmount(DetailAt(<<i, 2>>)) = Num(6000) /\ txs[2].amount = Num(6000)
             /\ OwnDate(DetailAt(<<i, 1>>)) = Null /\ txs[1].date = Str("2024-01-15")
             /\ txs[2].date = Str("2024-02-01")

----------------------------------------------------------------------------
(* C11 *)

\* the type code of a balance block
BalCode(bal) == Child(Child(Child(bal, "Tp"), "CdOrPrtry"), "Cd")

\* the balance blocks of a statement that carry the code, in document order
BlocksWithCode(stmt, code) ==
    SelectSeq(ChildList(stmt, "Bal"), LAMBDA bal : BalCode(bal) = Str(code))

\* the last block with the code, Null when no block has it
LastBlock(stmt, code) ==
    LET blocks == BlocksWithCode(stmt, code)
    IN IF blocks = <<>> THEN Null ELSE blocks[Len(blocks)]

\* the amount of the last block with the code, Null when no block has it
LastWithCode(stmt, code) == OwnAmount(LastBlock(stmt, code))

\* C11: openingBalance is the amount of the last balance block with code OPBD
\* and closingBalance that of the last block with code CLBD (null when no block
\* has the code, blocks with other codes ignored); so the order of two blocks
\* matters only when they carry the same code, and then the later one wins.
\* The amounts are numbers (C15 is about the others).
C11_LastBalanceWins ==
    Finished =>
        \A i \in 1..Len(stmts) :
            /\ Parses(LastBlock(stmts[i], "OPBD")) =>
                    result[i].openingBalance = LastWithCode(stmts[i], "OPBD")
            /\ Parses(LastBlock(stmts[i], "CLBD")) =>
                    result[i].closingBalance = LastWithCode(stmts[i], "CLBD")

\* C11 happens: two OPBD blocks of 40.00 and 60.00 around a CLBD block, and the
\* later OPBD block gave the opening balance
C11_Witness ==
    /\ Finished
    /\ \E i \in 1..Len(stmts) :
          LET bals == ChildList(stmts[i], "Bal")
          IN /\ Len(bals) = 3
             /\ BalCode(bals[1]) = Str("OPBD") /\ OwnAmount(bals[1]) = Num(4000)
             /\ BalCode(bals[2]) = Str("CLBD") /\ OwnAmount(bals[2]) = Num(10000)
             /\ BalCode(bals[3]) = Str("OPBD") /\ OwnAmount(bals[3]) = Num(6000)
             /\ result[i].openingBalance = Num(6000)
             /\ result[i].closingBalance = Num(10000)

----------------------------------------------------------------------------
(* C12, C13, C14 *)

\* the dates the inputs use, in chronological order
Calendar ==
    <<"2024-01-02", "2024-01-05", "2024-01-10", "2024-01-15", "2024-01-20", "2024-01-31",
      "2024-02-01", "2024-03-01", "2024-03-15", "2024-03-29", "2024-03-30", "2024-03-31",
      "2024-04-01">>

\* the place of a date in the calendar
Ordinal(date) == CHOOSE n \in 1..Len(Calendar) : Calendar[n] = date.s

\* the date that stands at place k of a text, if one does
DateStandingAt(text, k) ==
    \E n \in 1..Len(Calendar) : k + 9 <= Len(text) /\ SubSeq(text, k, k + 9) = Calendar[n]

\* the first date in the text of an element, Null when it holds none
DateIn(v) ==
    IF v.k = "str" /\ \E k \in 1..Len(v.s) : DateStandingAt(v.s, k)
    THEN LET k == CHOOSE k \in 1..Len(v.s) :
                    /\ DateStandingAt(v.s, k)
                    /\ \A h \in 1..(k - 1) : ~DateStandingAt(v.s, h)
         IN Str(SubSeq(v.s, k, k + 9))
    ELSE Null

\* the dates of the tiers (a), (b), (c) of a statement
PeriodEndDateTime(stmt) == DateIn(Child(Child(stmt, "FrToDt"), "ToDtTm"))
PeriodEndDate(stmt) == DateIn(Child(Child(stmt, "FrToDt"), "ToDt"))
CreationDate(stmt) == DateIn(Child(stmt, "CreDtTm"))

\* tier (d): the dates the balance blocks of a statement carry
BalanceDates(stmt) ==
    LET bals == ChildList(stmt, "Bal")
    IN {DateIn(Child(Child(bals[n], "Dt"), "Dt")) : n \in 1..Len(bals)} \ {Null}

\* the dates a booking date element carries
DatesOf(BookgDt) == {DateIn(Child(BookgDt, "Dt")), DateIn(Child(BookgDt, "DtTm"))} \ {Null}

\* tier (e): the booking dates of the entries and of their details
BookingDates(stmt) ==
    LET ntries == ChildList(stmt, "Ntry")
        details(ntry) == ChildList(Child(ntry, "NtryDtls"), "TxDtls")
    IN UNION {DatesOf(Child(ntries[e], "BookgDt"))
                \cup UNION {DatesOf(Child(details(ntries[e])[j], "BookgDt")) :
                              j \in 1..Len(details(ntries[e]))} :
              e \in 1..Len(ntries)}

\* C12: statementDate is a string: the date of the first of the tiers period end
\* date-time, period end date, creation date, balance dates, booking dates that
\* yields a date (an element without a date pattern yields none), and the empty
\* string when none does.
C12_StatementDateTiers ==
    Finished =>
        \A i \in 1..Len(stmts) :
            LET stmt == stmts[i]
                statementDate == result[i].statementDate
            IN /\ statementDate.k = "str"
               /\ IF PeriodEndDateTime(stmt) # Null THEN statementDate = PeriodEndDateTime(stmt)
                  ELSE IF PeriodEndDate(stmt) # Null THEN statementDate = PeriodEndDate(stmt)
                  ELSE IF CreationDate(stmt) # Null THEN statementDate = CreationDate(stmt)
                  ELSE IF BalanceDates(stmt) # {} THEN statementDate \in BalanceDates(stmt)
                  ELSE IF BookingDates(stmt) # {} THEN statementDate \in BookingDates(stmt)
                  ELSE statementDate = Str("")

\* C12 happens: a period end date-time without a date pattern, a period end date
\* and a creation date, and the period end date is the statement date
C12_Witness ==
    /\ Finished
    /\ \E i \in 1..Len(stmts) :
          /\ Child(Child(stmts[i], "FrToDt"), "ToDtTm") = Str("n/a")
          /\ PeriodEndDate(stmts[i]) = Str("2024-03-30")
          /\ CreationDate(stmts[i]) = Str("2024-04-01")
          /\ result[i].statementDate = Str("2024-03-30")

\* the tiers before the balance dates yield no date
NoStatementLevelDate(stmt) ==
    PeriodEndDateTime(stmt) = Null /\ PeriodEndDate(stmt) = Null /\ CreationDate(stmt) = Null

\* C13: when the tiers (a)-(c) yield no date and a balance block carries one,
\* statementDate is the chronologically greatest of the balance dates.
C13_LatestBalanceDate ==
    Finished =>
        \A i \in 1..Len(stmts) :
            (NoStatementLevelDate(stmts[i]) /\ BalanceDates(stmts[i]) # {}) =>
                /\ result[i].statementDate \in BalanceDates(stmts[i])
                /\ \A d \in BalanceDates(stmts[i]) :
                      Ordinal(d) <= Ordinal(result[i].statementDate)

\* the date a transaction contributes: the detail's own, else the entry's
Contributions(stmt) ==
    LET ntries == ChildList(stmt, "Ntry")
        details(ntry) == ChildList(Child(ntry, "NtryDtls"), "TxDtls")
        own(node) == IF DateIn(Child(Child(node, "BookgDt"), "Dt")) # Null
                     THEN DateIn(Child(Child(node, "BookgDt"), "Dt"))
                     ELSE DateIn(Child(Child(node, "BookgDt"), "DtTm"))
    IN UNION {IF Len(details(ntries[e])) = 0 THEN {own(ntries[e])}
              ELSE {IF own(details(ntries[e])[j]) # Null THEN own(details(ntries[e])[j])
                    ELSE own(ntries[e]) : j \in 1..Len(details(ntries[e]))} :
              e \in 1..Len(ntries)} \ {Null}

\* C14 as stated: when the tiers (a)-(d) yield no date, statementDate is the
\* chronologically smallest booking date of the details of all entries, a
\* detail or entry without its own contributing the entry-level date.
C14_EarliestBookingDate ==
    Finished =>
        \A i \in 1..Len(stmts) :
            (/\ NoStatementLevelDate(stmts[i]) /\ BalanceDates(stmts[i]) = {}
             /\ Contributions(stmts[i]) # {}) =>
                /\ result[i].statementDate \in Contributions(stmts[i])
                /\ \A d \in Contributions(stmts[i]) :
                      Ordinal(result[i].statementDate) <= Ordinal(d)

\* the dates of the transactions of a statement that have one, in output order
DatesInOrder(transactions) ==
    SelectSeq([t \in 1..Len(transactions) |-> transactions[t].date], LAMBDA d : d # Null)

\* C14 as amended: when the tiers (a)-(d) yield no date, statementDate is the
\* date of the first transaction of the statement, in source order, that has a
\* date (the detail's own booking date, else the entry's), and the empty string
\* when no transaction has one.
C14_FirstBookingDate ==
    Finished =>
        \A i \in 1..Len(stmts) :
            (NoStatementLevelDate(stmts[i]) /\ BalanceDates(stmts[i]) = {}) =>
                result[i].statementDate =
                    (IF DatesInOrder(result[i].transactions) # <<>>
                     THEN DatesInOrder(result[i].transactions)[1] ELSE Str(""))

\* C14 happens: the first detail is booked 2024-02-01, the second 2024-01-02, and
\* the statement date is the first, not the earliest
C14_Witness ==
    /\ Finished
    /\ \E i \in 1..Len(stmts) :
          /\ NoStatementLevelDate(stmts[i]) /\ BalanceDates(stmts[i]) = {}
          /\ Len(result[i].transactions) = 2
          /\ result[i].transactions[1].date = Str("2024-02-01")
          /\ result[i].transactions[2].date = Str("2024-01-02")
          /\ result[i].statementDate = Str("2024-02-01")

----------------------------------------------------------------------------
(* C15 *)

\* a text that is there and holds no digit
NonNumeric(v) ==
    /\ NonEmptyText(v)
    /\ \A k \in 1..Len(v.s) :
          SubSeq(v.s, k, k) \notin {"0", "1", "2", "3", "4", "5", "6", "7", "8", "9"}

\* the text of the sequence number: LglSeqNb, else ElctrncSeqNb
SequenceText(stmt) ==
    IF Child(stmt, "LglSeqNb") # Null THEN Child(stmt, "LglSeqNb")
    ELSE Child(stmt, "ElctrncSeqNb")

\* the text of the total of a summary block
SumText(stmt, tag) == AmountText(Child(Child(Child(stmt, "TxsSummry"), tag), "Sum"))

\* the text of the amount of an entry, a detail or a balance block
AmtText(node) == AmountText(Child(node, "Amt"))

----------------------------------------------------------------------------
(* C16 *)

\* the second call has ended after a first call that returned
BothCalled == earlier.returned = "resolved" /\ pc \in {"done", "failed"}

\* the transactions in txs that come from entry e of the statement
TransactionsOfEntry(stmt, txs, e) ==
    LET ntries == ChildList(stmt, "Ntry")
        before == SumOf([x \in 1..(e - 1) |-> Max(1, DetailCount(ntries[x]))])
    IN SubSeq(txs, before + 1, before + Max(1, DetailCount(ntries[e])))

\* the two statements have the same entries but for entry k
OneEntryApart(a, b, k) ==
    /\ Len(ChildList(a, "Ntry")) = Len(ChildList(b, "Ntry"))
    /\ k \in 1..Len(ChildList(a, "Ntry"))
    /\ \A e \in (1..Len(ChildList(a, "Ntry"))) \ {k} :
          ChildList(a, "Ntry")[e] = ChildList(b, "Ntry")[e]

\* C16: of two documents that differ only in statement j, the record of every
\* other statement is the same in both outputs; of two statements that differ
\* only in entry k, the transactions of every other entry are the same; and
\* the same document gives the same output twice.
C16_NoCrossInteraction ==
    BothCalled =>
        /\ returned = "resolved"
        /\ Len(result) = Len(earlier.result)
        /\ \A i \in 1..Len(earlier.result) :
              /\ stmts[i] = earlier.stmts[i] => result[i] = earlier.result[i]
              /\ \A k \in 1..Len(ChildList(stmts[i], "Ntry")) :
                    OneEntryApart(earlier.stmts[i], stmts[i], k) =>
                        \A e \in (1..Len(ChildList(stmts[i], "Ntry"))) \ {k} :
                            TransactionsOfEntry(stmts[i], result[i].transactions, e)
                            = TransactionsOfEntry(earlier.stmts[i],
                                                  earlier.result[i].transactions, e)

----------------------------------------------------------------------------
(* C17 *)

\* the first of the values that is there, Null when none is
FirstPresent(values) ==
    LET there == SelectSeq(values, LAMBDA v : v # Null)
    IN IF there = <<>> THEN Null ELSE there[1]

\* v is a value: it is there and it is not empty
Something(v) == v # Null /\ v # Str("")

\* the side of the related parties the direction of the entry selects
SideOf(ntry) ==
    IF Child(ntry, "CdtDbtInd") = Str("CRDT") THEN "Dbtr"
    ELSE IF Child(ntry, "CdtDbtInd") = Str("DBIT") THEN "Cdtr"
    ELSE "none"

\* what the direction-dependent step finds for the name and for the account
FoundName(ntry, txDtls) ==
    LET party == Child(Child(txDtls, "RltdPties"), SideOf(ntry))
    IN FirstPresent(<<Child(party, "Nm"), Child(Child(party, "Pty"), "Nm")>>)

FoundAccount(ntry, txDtls) ==
    LET Id == Child(Child(Child(txDtls, "RltdPties"), SideOf(ntry) \o "Acct"), "Id")
    IN FirstPresent(<<Child(Id, "IBAN"), Child(Child(Id, "Othr"), "Id")>>)

\* the proprietary reference of a detail
PrtryRef(txDtls) == Child(Child(Child(txDtls, "Refs"), "Prtry"), "Ref")

\* C17: the counterparty name is the first present of Nm and Pty/Nm of the
\* debtor for a credit and of the creditor for a debit, the account the first
\* present of IBAN and Othr/Id of that party's account; with an unresolved
\* direction no party field is used. Only when that step yields nothing (no
\* value, or an empty one) the name is the first present of AcctSvcrRef,
\* NtryRef, Refs/Prtry/Ref and the account the first present of Refs/Prtry/Ref,
\* NtryRef; a value the step found is never replaced.
C17_CounterpartyResolution ==
    Finished =>
        \A p \in Places :
            LET ntry == NtryAt(p)
                txDtls == DetailAt(p)
            IN /\ Tx(p).counterpartyName =
                    (IF Something(FoundName(ntry, txDtls)) THEN FoundName(ntry, txDtls)
                     ELSE FirstPresent(<<Child(ntry, "AcctSvcrRef"), Child(ntry, "NtryRef"),
                                         PrtryRef(txDtls)>>))
               /\ Tx(p).counterpartyAccountIBAN =
                    (IF Something(FoundAccount(ntry, txDtls)) THEN FoundAccount(ntry, txDtls)
                     ELSE FirstPresent(<<PrtryRef(txDtls), Child(ntry, "NtryRef")>>))

\* C17 happens: a debit whose creditor has only Pty/Nm and Othr/Id, beside a
\* debtor with every field and all three references
C17_Witness ==
    /\ Finished
    /\ \E p \in Places :
          LET parties == Child(DetailAt(p), "RltdPties")
          IN /\ SideOf(NtryAt(p)) = "Cdtr"
             /\ Child(Child(parties, "Cdtr"), "Nm") = Null
             /\ Child(Child(parties, "Dbtr"), "Nm") = Str("DbtrN")
             /\ Child(NtryAt(p), "AcctSvcrRef") = Str("A")
             /\ PrtryRef(DetailAt(p)) = Str("P")
             /\ Tx(p).counterpartyName = Str("CdtrP")
             /\ Tx(p).counterpartyAccountIBAN = Str("CdtrO")

----------------------------------------------------------------------------
(* C18 *)

\* the transactions of entries without detail: their date is extractDate of the
\* booking date of the entry
EntryLevel == {p \in Places : DetailAt(p).k # "obj"}

RECURSIVE DateAnywhere(_)
\* the date of a text, or the first date found under Dt and then under DtTm
DateAnywhere(v) ==
    IF v.k = "str" THEN DateIn(v)
    ELSE IF v.k # "obj" THEN Null
    ELSE IF DateAnywhere(Child(v, "Dt")) # Null THEN DateAnywhere(Child(v, "Dt"))
    ELSE DateAnywhere(Child(v, "DtTm"))

RECURSIVE DateOfChosenChild(_)
\* the date of a text, or of the child a node chooses: Dt when it is there and
\* not empty, DtTm otherwise
DateOfChosenChild(v) ==
    IF v.k = "str" THEN DateIn(v)
    ELSE IF Something(Child(v, "Dt")) THEN DateOfChosenChild(Child(v, "Dt"))
    ELSE IF Something(Child(v, "DtTm")) THEN DateOfChosenChild(Child(v, "DtTm"))
    ELSE Null

----------------------------------------------------------------------------
(* C19 *)

\* the Stmt elements of the document, in document order
SourceStmts == ChildList(Child(Child(xml.tree, "Document"), "BkToCstmrStmt"), "Stmt")

RECURSIVE Flattened(_)
\* the sequences of a sequence, one after the other
Flattened(seqs) == IF seqs = <<>> THEN <<>> ELSE Head(seqs) \o Flattened(Tail(seqs))

\* the details of an entry, in document order
DetailsOf(ntry) ==
    LET blocks == ChildList(ntry, "NtryDtls")
    IN Flattened([b \in 1..Len(blocks) |-> ChildList(blocks[b], "TxDtls")])

\* the marks of an entry in document order: its NtryRef, then the EndToEndId of
\* each of its details
MarksOfEntry(ntry) ==
    <<Child(ntry, "NtryRef")>>
    \o [j \in 1..Len(DetailsOf(ntry)) |->
           Child(Child(DetailsOf(ntry)[j], "Refs"), "EndToEndId")]

\* the marks of a statement in document order
MarksOf(stmt) ==
    LET ntries == ChildList(stmt, "Ntry")
    IN Flattened([e \in 1..Len(ntries) |-> MarksOfEntry(ntries[e])])

\* every entry and detail of the statement carries a mark of its own
Marked(stmt) ==
    LET marks == MarksOf(stmt)
    IN /\ \A n \in 1..Len(marks) : NonEmptyText(marks[n])
       /\ \A m, n \in 1..Len(marks) : marks[m] = marks[n] => m = n

\* the place of a mark in the document order of the statement (0: not a mark)
PlaceOf(stmt, mark) ==
    LET marks == MarksOf(stmt)
    IN IF \E n \in 1..Len(marks) : marks[n] = mark
       THEN CHOOSE n \in 1..Len(marks) : marks[n] = mark
       ELSE 0

\* the entry a mark belongs to (0: not a mark)
EntryOf(stmt, mark) ==
    LET ntries == ChildList(stmt, "Ntry")
    IN IF \E e \in 1..Len(ntries) : \E n \in 1..Len(MarksOfEntry(ntries[e])) :
             MarksOfEntry(ntries[e])[n] = mark
       THEN CHOOSE e \in 1..Len(ntries) : \E n \in 1..Len(MarksOfEntry(ntries[e])) :
                MarksOfEntry(ntries[e])[n] = mark
       ELSE 0

\* C19: the output has one statement per Stmt of the document, in document
\* order; within a statement the transactions of an entry precede those of the
\* next entry and follow the order of the details of their entry, and every
\* entry has a transaction.
C19_SourceOrder ==
    Finished =>
        /\ Len(result) = Len(SourceStmts)
        /\ \A i \in 1..Len(result) :
              LET stmt == SourceStmts[i]
                  txs == result[i].transactions
                  place(t) == PlaceOf(stmt, txs[t].endToEndReference)
              IN /\ AccountCcy(stmt).k = "str" => result[i].currency = AccountCcy(stmt)
                 /\ Marked(stmt) =>
                       /\ \A t \in 1..Len(txs) : place(t) > 0
                       /\ \A t \in 1..(Len(txs) - 1) : place(t) < place(t + 1)
                       /\ \A e \in 1..Len(ChildList(stmt, "Ntry")) :
                             \E t \in 1..Len(txs) :
                                 EntryOf(stmt, txs[t].endToEndReference) = e

\* C19 happens: two entries of two details each gave four transactions in the
\* order of the document
C19_Witness ==
    /\ Finished
    /\ Len(result) = 1
    /\ Marked(SourceStmts[1])
    /\ Len(ChildList(SourceStmts[1], "Ntry")) = 2
    /\ [t \in 1..Len(result[1].transactions) |-> result[1].transactions[t].endToEndReference]
          = <<Str("E1D1"), Str("E1D2"), Str("E2D1"), Str("E2D2")>>

\* C19 happens for statements: two Stmt elements gave two statements in the
\* order of the document
C19_StatementsWitness ==
    /\ Finished
    /\ Len(SourceStmts) = 2
    /\ AccountCcy(SourceStmts[1]) = Str("SEK") /\ result[1].currency = Str("SEK")
    /\ AccountCcy(SourceStmts[2]) = Str("EUR") /\ result[2].currency = Str("EUR")

----------------------------------------------------------------------------
(* C20 *)

\* the candidate is there and not empty
Exists(v) == v \notin {Null, Str("")}

\* none of the four text candidates of the transaction exists
NoPrimary(p) ==
    \A n \in 1..4 : ~Exists(PrimarySources(NtryAt(p), DetailAt(p))[n])

\* C20: in every returned transaction descriptionAdditional is not null only
\* if description is not null, and when none of the four text candidates
\* exists (the description comes from the references) descriptionAdditional
\* is null.
C20_AdditionalNeedsDescription ==
    Finished =>
        \A p \in Places :
            /\ Tx(p).descriptionAdditional # Null => Tx(p).description # Null
            /\ NoPrimary(p) => Tx(p).descriptionAdditional = Null

\* C20 happens: no text candidate, three references, the description is the
\* first reference and there is no descriptionAdditional
C20_Witness ==
    /\ Finished
    /\ \E p \in Places :
          /\ NoPrimary(p)
          /\ \A n \in 1..3 :
                NonEmptyText(FallbackSources(stmts[p[1]], NtryAt(p), DetailAt(p))[n])
          /\ Tx(p).description = FallbackSources(stmts[p[1]], NtryAt(p), DetailAt(p))[1]
          /\ Tx(p).descriptionAdditional = Null

\* C20 happens for the first half: a transaction with a descriptionAdditional
C20_AdditionalWitness ==
    /\ Finished
    /\ \E p \in Places :
          /\ Tx(p).descriptionAdditional # Null
          /\ Tx(p).description # Null

----------------------------------------------------------------------------
(* C21 *)

\* the transactions of entries that have no TxDtls in any NtryDtls block
Lone == {p \in Places : DetailCount(NtryAt(p)) = 0}

\* the direction an entry states
Direction(ntry) ==
    IF Child(ntry, "CdtDbtInd") = Str("CRDT") THEN Str("credit")
    ELSE IF Child(ntry, "CdtDbtInd") = Str("DBIT") THEN Str("debit")
    ELSE Null

\* C21: an entry without TxDtls gives one transaction; its purpose and
\* remittanceReference are null, its endToEndReference and
\* counterpartyAccountIBAN are the NtryRef of the entry (null when there is
\* none), its date, amount and type are the booking date, the amount and the
\* direction of the entry, and its currency is the statement currency or, when
\* that is empty, the Ccy of the entry's Amt. The amounts are numbers (C15 is
\* about the others).
C21_EntryWithoutDetail ==
    Finished =>
        /\ \A i \in 1..Len(stmts) :
              LET ntries == ChildList(stmts[i], "Ntry")
              IN (\A e \in 1..Len(ntries) : DetailCount(ntries[e]) = 0) =>
                    /\ Len(result[i].transactions) = Len(ntries)
                    /\ \A e \in 1..Len(ntries) : NtryAt(<<i, e>>) = ntries[e]
        /\ \A p \in Lone :
              LET ntry == NtryAt(p)
              IN /\ Tx(p).purpose = Null
                 /\ Tx(p).remittanceReference = Null
                 /\ Tx(p).endToEndReference = Child(ntry, "NtryRef")
                 /\ Tx(p).counterpartyAccountIBAN = Child(ntry, "NtryRef")
                 /\ Tx(p).date = DateOfChosenChild(Child(ntry, "BookgDt"))
                 /\ Parses(ntry) => Tx(p).amount = OwnAmount(ntry)
                 /\ Tx(p).type = Direction(ntry)
                 /\ Tx(p).currency =
                       (IF result[p[1]].currency # Str("") THEN result[p[1]].currency
                        ELSE IF NonEmptyText(AmtCcy(ntry)) THEN AmtCcy(ntry)
                        ELSE Str(""))

\* C21 happens: an entry with a batch summary and no TxDtls, after a detailed
\* entry, in a statement without currency
C21_Witness ==
    /\ Finished
    /\ \E p \in Lone :
          /\ p[2] = 2
          /\ result[p[1]].currency = Str("")
          /\ Child(NtryAt(p), "NtryDtls") # Null
          /\ Child(NtryAt(p), "NtryRef") = Str("NR")
          /\ Tx(p).endToEndReference = Str("NR")
          /\ Tx(p).counterpartyAccountIBAN = Str("NR")
          /\ Tx(p).purpose = Null
          /\ Tx(p).remittanceReference = Null
          /\ Tx(p).date = Str("2024-01-15")
          /\ Tx(p).amount = Num(0)
          /\ Tx(p).type = Str("debit")
          /\ Tx(p).currency = Str("GBP")

=============================================================================
